---- MODULE Spec2Model ----
(***************************************************************************)
(* State-machine model of the printer scheduling engine of                 *)
(* backend/smart_scheduler.py: ResourceManager, PriorityQueue,             *)
(* SchedulerCache, PrinterIndex, the sub-order planner, the scorer and     *)
(* PrinterScheduler (schedule_order, cancel_order,                         *)
(* update_printer_resources), run by concurrent caller threads.            *)
(*                                                                         *)
(* Units: ink levels and ink rates are integers in units of 0.05 percent   *)
(* (100 percent = 2000), so that every rate of Config.INK_CONSUMPTION is   *)
(* an integer; scores are integers over the common denominator             *)
(* 100 * 2000 * ScoreLcm.                                                  *)
(***************************************************************************)
EXTENDS Integers, Sequences, FiniteSets, TLC

VARIABLES
    supported,         \* printers_data[p]['supported'], as a set
    speed,             \* printers_data[p]['speed']
    paper_count,       \* printers_data[p]['paper_count']: paper kind -> sheets
    ink,               \* printers_data[p]['ink']: channel -> level
    queue,             \* printers_data[p]['queue']._queue: the heap list
    max_length,        \* printers_data[p]['queue'].max_length
    versions,          \* ResourceManager._versions
    locks,             \* ResourceManager._locks: holder of each printer lock
    capability_index,  \* PrinterIndex.capability_index
    cache,             \* SchedulerCache.cache: set of entries (key fields, value)
    th,                \* per caller thread: position and locals of its call
    budget,            \* calls that may still be started
    clock,             \* time.time() as a counter of pushes
    initial_paper,     \* ledger: paper_count at construction
    consumed,          \* ledger: paper subtracted by successful commits
    returned,          \* ledger: paper of the queued jobs removed by cancel_order
    manual,            \* ledger: printers touched by update_printer_resources
    published,         \* ledger: paper and ink when the version was last set
    commits,           \* ledger: per printer, snapshot version -> successful consumes
    popped,            \* last pop: the job returned and the heap it came from
    planned            \* a function of the scheduler called directly
                       \* (generate_suborders_from_order, the constructor's
                       \* validate_printers_data): its arguments and what it
                       \* returned

vars == << supported, speed, paper_count, ink, queue, max_length, versions, locks,
           capability_index, cache, th, budget, clock, initial_paper, consumed,
           returned, manual, published, commits, popped, planned >>

----------------------------------------------------------------------------
(* Bounds of the model *)

\* calls started in one behaviour of Spec, by two concurrent threads:
\* schedule_order, cancel_order, update_printer_resources and the pops of the
\* execution backend
MaxCalls == 2
\* calls started in one behaviour of SpecSeq, by one thread
MaxSeqCalls == 4
\* queue operations in one behaviour of SpecQ
MaxQueueOps == 6
\* max_length of the queues of Spec and SpecSeq; those of SpecQ hold one job
\* more (Config.MAX_QUEUE_LENGTH in the source is 10)
MaxQueue == 1
\* sheets of one paper kind a printer starts with or is refilled to
MaxPaper == 2

----------------------------------------------------------------------------
(* Configuration *)

\* the caller threads; a call is started by the first thread that is idle
\* (the threads are interchangeable workers)
ThreadOrder == << "t1", "t2" >>
Threads == {ThreadOrder[n] : n \in 1..Len(ThreadOrder)}

\* printers_data.keys(), in dict order
PrinterOrder == << "P1", "P2" >>
Printers == {PrinterOrder[n] : n \in 1..Len(PrinterOrder)}

NoOne == "free"
None == "None"

\* Config.INK_CONSUMPTION, rate per page in units of 0.05 percent
INK_CONSUMPTION(otype) ==
    CASE otype = "bw" -> [black |-> 10]
      [] otype = "color" -> [C |-> 6, M |-> 6, Y |-> 6, black |-> 2]
      [] otype = "glossy" -> [C |-> 10, M |-> 10, Y |-> 10, black |-> 4]
      [] otype = "thick" -> [C |-> 9, M |-> 9, Y |-> 9, black |-> 3]
      [] otype = "postersize" -> [C |-> 16, M |-> 16, Y |-> 16, black |-> 10]
      [] OTHER -> << >>

\* Config.DEFAULT_WEIGHTS, in hundredths
DEFAULT_WEIGHTS == [paper |-> 35, ink |-> 30, speed |-> 15, queue |-> 15, extras |-> 5]

----------------------------------------------------------------------------
(* Helpers over dicts, sets and sequences *)

\* dict.get(key, default)
Get(d, key, default) == IF key \in DOMAIN d THEN d[key] ELSE default

\* dict.update(other)
\* a dict left as it was
DictKeep(d, other) == d
DictUpdate(d, other) ==
    [k \in DOMAIN d \cup DOMAIN other |-> IF k \in DOMAIN other THEN other[k] ELSE d[k]]

Range(s) == {s[n] : n \in DOMAIN s}

RECURSIVE SumOver(_, _)
SumOver(f, S) ==
    IF S = {} THEN 0
    ELSE LET x == CHOOSE y \in S : TRUE IN f[x] + SumOver(f, S \ {x})

SetMin(S) == CHOOSE x \in S : \A y \in S : x <= y

Gcd(a, b) == CHOOSE d \in 1..a : a % d = 0 /\ b % d = 0
                 /\ \A e \in 1..a : (a % e = 0 /\ b % e = 0) => e <= d

RECURSIVE LcmUpTo(_)
LcmUpTo(n) == IF n <= 1 THEN 1
              ELSE LET l == LcmUpTo(n - 1) IN (l * n) \div Gcd(n, l)

----------------------------------------------------------------------------
(* PriorityQueue: a heapq list of PrioritizedJob.  Sequences are 1-based, so  *)
(* heap position pos of the source is index pos + 1 here: the parent of index *)
(* n is n \div 2 and its children are 2n and 2n + 1.                          *)

\* PrioritizedJob
PrioritizedJob(priority, timestamp, job_id, job_data) ==
    [priority |-> priority, timestamp |-> timestamp, job_id |-> job_id,
     job_data |-> job_data]

\* PrioritizedJob.__lt__: dataclass(order=True) compares the fields that have
\* compare=True, which is priority alone
JobLt(a, b) == a.priority < b.priority

\* heapq._siftdown(heap, startpos, pos), newitem taken out of heap[pos]
RECURSIVE SiftDown(_, _, _, _)
SiftDown(heap, startpos, pos, newitem) ==
    IF pos > startpos /\ JobLt(newitem, heap[pos \div 2])
    THEN SiftDown([heap EXCEPT ![pos] = heap[pos \div 2]], startpos, pos \div 2, newitem)
    ELSE [heap EXCEPT ![pos] = newitem]

\* heapq._siftup(heap, pos): bubble the smaller child up to a leaf, then sift
\* newitem down from there
RECURSIVE SiftUpFrom(_, _, _, _)
SiftUpFrom(heap, startpos, pos, newitem) ==
    LET childpos == 2 * pos
        rightpos == childpos + 1
        c == IF rightpos <= Len(heap) /\ ~JobLt(heap[childpos], heap[rightpos])
             THEN rightpos ELSE childpos
    IN IF childpos <= Len(heap)
       THEN SiftUpFrom([heap EXCEPT ![pos] = heap[c]], startpos, c, newitem)
       ELSE SiftDown(heap, startpos, pos, newitem)

SiftUp(heap, pos) == SiftUpFrom(heap, pos, pos, heap[pos])

\* heapq.heappush(heap, item)
HeapPush(heap, item) ==
    LET h == Append(heap, item) IN SiftDown(h, 1, Len(h), item)

\* heapq.heappop(heap): the item returned and the heap left
HeapPop(heap) ==
    LET lastelt == heap[Len(heap)]
        rest == SubSeq(heap, 1, Len(heap) - 1)
    IN IF rest = << >>
       THEN [item |-> lastelt, heap |-> rest]
       ELSE [item |-> rest[1], heap |-> SiftUp([rest EXCEPT ![1] = lastelt], 1)]

\* heapq.heapify(x): _siftup(x, i) for i in reversed(range(n // 2))
RECURSIVE HeapifyFrom(_, _)
HeapifyFrom(x, n) == IF n < 1 THEN x ELSE HeapifyFrom(SiftUp(x, n), n - 1)

Heapify(x) == HeapifyFrom(x, Len(x) \div 2)

\* a queue that never reports itself full
NeverFull(p) == FALSE

\* PriorityQueue.is_full
is_full(p) == Len(queue[p]) >= max_length[p]

\* push without its length check
PushNoBound(q, maxlen, job) == [overflow |-> FALSE, heap |-> HeapPush(q, job)]

\* PriorityQueue.push: "overflow" stands for raising QueueOverflowError, else
\* the heap after heappush
push(q, maxlen, job) ==
    IF Len(q) >= maxlen
    THEN [overflow |-> TRUE, heap |-> q]
    ELSE [overflow |-> FALSE, heap |-> HeapPush(q, job)]

\* a cancel that empties the queue
RemoveAllJobs(q, order_id) == << >>

\* the list comprehension and heapify of cancel_order on one queue
RemoveJobs(q, order_id) == Heapify(SelectSeq(q, LAMBDA job : job.job_id # order_id))

----------------------------------------------------------------------------
(* Requirements of a sub-order.  A requirement maps each print type of the  *)
(* sub-order to [paper_count |-> (paper kind -> sheets)].                   *)

\* pages = sum(req.get('paper_count', {}).values())
Pages(req) == SumOver(req.paper_count, DOMAIN req.paper_count)

\* paper_needed of validate_and_consume: per paper kind, summed over the types
PaperNeeded(suborder_req) ==
    [ptype \in UNION {DOMAIN suborder_req[t].paper_count : t \in DOMAIN suborder_req} |->
        LET per == [t \in DOMAIN suborder_req |-> Get(suborder_req[t].paper_count, ptype, 0)]
        IN SumOver(per, DOMAIN suborder_req)]

\* ink_needed of validate_and_consume: per channel, pages * rate summed over the types
InkNeeded(suborder_req) ==
    [channel \in UNION {DOMAIN INK_CONSUMPTION(t) : t \in DOMAIN suborder_req} |->
        LET per == [t \in DOMAIN suborder_req |->
                       Pages(suborder_req[t]) * Get(INK_CONSUMPTION(t), channel, 0)]
        IN SumOver(per, DOMAIN suborder_req)]

\* suborder_req = {t: order[t] for t in suborder_types}
SuborderReq(order, suborder_types) == [t \in suborder_types |-> order.req[t]]

\* the version check of validate_and_consume
VersionCheckSkipped(current, snapshot_version) == TRUE
VersionUnchanged(current, snapshot_version) == current = snapshot_version

\* checks that let every sub-order through
ChecksPassed(p, suborder_req, snapshot_version) == "ok"

\* the checks of validate_and_consume, in the order of the source: the error
\* raised, or "ok"
ValidateResult(p, suborder_req, snapshot_version) ==
    LET paper_needed == PaperNeeded(suborder_req)
        ink_needed == InkNeeded(suborder_req)
    IN IF ~VersionUnchanged(versions[p], snapshot_version)
       THEN "ResourceConflictError"
       ELSE IF \/ \E ptype \in DOMAIN paper_needed :
                     Get(paper_count[p], ptype, 0) < paper_needed[ptype]
               \/ \E channel \in DOMAIN ink_needed :
                     Get(ink[p], channel, 0) < ink_needed[channel]
       THEN "InsufficientResourceError"
       ELSE "ok"

\* paper left as it was
PaperKept(paper, suborder_req) == paper

\* the subtraction of validate_and_consume on paper_count
ConsumePaper(paper, suborder_req) ==
    LET paper_needed == PaperNeeded(suborder_req)
    IN [ptype \in DOMAIN paper |->
           IF ptype \in DOMAIN paper_needed THEN paper[ptype] - paper_needed[ptype]
           ELSE paper[ptype]]

\* the subtraction of validate_and_consume on ink, with its max(0, .)
ConsumeInk(levels, suborder_req) ==
    LET ink_needed == InkNeeded(suborder_req)
    IN [channel \in DOMAIN levels |->
           IF channel \in DOMAIN ink_needed
           THEN IF levels[channel] - ink_needed[channel] < 0 THEN 0
                ELSE levels[channel] - ink_needed[channel]
           ELSE levels[channel]]

\* self._versions[printer_id] += 1
VersionNotIncremented(v) == v
NextVersion(v) == v + 1

----------------------------------------------------------------------------
(* Scorer.  A score is the integer  score * 100 * 2000 * ScoreLcm, where     *)
(* ScoreLcm is a common multiple of every paper count and of every           *)
(* 1 + queue length that can occur, so that each factor is an integer.       *)

ScoreLcm == LcmUpTo(IF MaxPaper > MaxQueue + 1 THEN MaxPaper ELSE MaxQueue + 1)

\* _percent_score over a value in units of 1/2000: clamp to 0..100 percent
PercentClamp(v) == IF v < 0 THEN 0 ELSE IF v > 2000 THEN 2000 ELSE v

\* the paper loop of score_printer_for_suborder: the (type, paper kind) pairs
PaperPairs(suborder_req) ==
    {<<otype, ptype>> \in (DOMAIN suborder_req) \X
         (UNION {DOMAIN suborder_req[t].paper_count : t \in DOMAIN suborder_req}) :
         ptype \in DOMAIN suborder_req[otype].paper_count}

\* "if available < need: return 0.0" for some pair
PaperHardFail(p, suborder_req) ==
    \E pr \in PaperPairs(suborder_req) :
        Get(paper_count[p], pr[2], 0) < suborder_req[pr[1]].paper_count[pr[2]]

\* paper_score * ScoreLcm
PaperScore(p, suborder_req) ==
    LET pairs == PaperPairs(suborder_req)
        pct(pr) == LET available == Get(paper_count[p], pr[2], 0)
                       need == suborder_req[pr[1]].paper_count[pr[2]]
                   IN IF available > 0
                      THEN (available - need) * (ScoreLcm \div available)
                      ELSE 0
    IN IF pairs = {} THEN ScoreLcm ELSE SetMin({pct(pr) : pr \in pairs})

CmyTypes == {"color", "glossy", "postersize", "thick"}

\* the ink loop: "return 0.0" when a required channel is <= 0
InkHardFail(p, suborder_req) ==
    \/ "bw" \in DOMAIN suborder_req /\ Get(ink[p], "black", 0) <= 0
    \/ /\ DOMAIN suborder_req \cap CmyTypes # {}
       /\ \E channel \in {"C", "M", "Y"} : Get(ink[p], channel, 0) <= 0

\* ink_score * 2000
InkScore(p, suborder_req) ==
    LET ink_pcts ==
            (IF "bw" \in DOMAIN suborder_req THEN {Get(ink[p], "black", 0)} ELSE {})
            \cup (IF DOMAIN suborder_req \cap CmyTypes # {}
                  THEN {SetMin({Get(ink[p], channel, 0) : channel \in {"C", "M", "Y"}})}
                  ELSE {})
    IN IF ink_pcts = {} THEN 2000 ELSE PercentClamp(SetMin(ink_pcts))

\* speed_score * 2000 (speed is never None in a validated fleet)
SpeedScore(p) == PercentClamp((IF speed[p] > 100 THEN 100 ELSE speed[p]) * 20)

\* extras_penalty * 10
ExtrasScore(p, suborder_req) ==
    LET extras_count == Cardinality(supported[p] \ DOMAIN suborder_req)
    IN 10 - (IF extras_count > 10 THEN 10 ELSE extras_count)

\* score_printer_for_suborder with Config.DEFAULT_WEIGHTS
score_printer_for_suborder(p, suborder_req) ==
    IF PaperHardFail(p, suborder_req) \/ InkHardFail(p, suborder_req) THEN 0
    ELSE DEFAULT_WEIGHTS.paper * PaperScore(p, suborder_req) * 2000
         + DEFAULT_WEIGHTS.ink * InkScore(p, suborder_req) * ScoreLcm
         + DEFAULT_WEIGHTS.speed * SpeedScore(p) * ScoreLcm
         + DEFAULT_WEIGHTS.queue * (ScoreLcm \div (1 + Len(queue[p]))) * 2000
         + DEFAULT_WEIGHTS.extras * ExtrasScore(p, suborder_req) * 200 * ScoreLcm

----------------------------------------------------------------------------
(* assign_printer_for_suborder, given the printers the index lookup returned *)

\* position of a printer id in the order of the ids (P1 < P2 < ...)
IdRank(p) == CHOOSE n \in 1..Len(PrinterOrder) : PrinterOrder[n] = p

\* default_priorities.index(x) if x in default_priorities else 9999
PriorityIndex(default_priorities, p) ==
    IF \E n \in DOMAIN default_priorities : default_priorities[n] = p
    THEN (CHOOSE n \in DOMAIN default_priorities :
              /\ default_priorities[n] = p
              /\ \A m \in DOMAIN default_priorities : default_priorities[m] = p => n <= m) - 1
    ELSE 9999

\* a sort by name alone
RankByName(a, b, suborder_req, default_priorities) == IdRank(a) < IdRank(b)

\* the sort key (-score, priority index, name) compared
RankBefore(a, b, suborder_req, default_priorities) ==
    LET sa == score_printer_for_suborder(a, suborder_req)
        sb == score_printer_for_suborder(b, suborder_req)
        ia == PriorityIndex(default_priorities, a)
        ib == PriorityIndex(default_priorities, b)
    IN \/ sa > sb
       \/ sa = sb /\ ia < ib
       \/ sa = sb /\ ia = ib /\ IdRank(a) < IdRank(b)

\* the outcome of assign_printer_for_suborder: the error raised, or the best
\* printer and its score.  default_priorities is << >> when none is given.
assign_printer_for_suborder(suborder_types, order, default_priorities, capable_printer_ids) ==
    LET suborder_req == SuborderReq(order, suborder_types)
        candidates == capable_printer_ids \cap Printers
        queue_full_printers == {p \in candidates : is_full(p)}
        scored_candidates == {p \in candidates \ queue_full_printers :
                                  score_printer_for_suborder(p, suborder_req) > 0}
        resource_failures == (candidates \ queue_full_printers) \ scored_candidates
        best == CHOOSE p \in scored_candidates :
                    \A o \in scored_candidates \ {p} :
                        RankBefore(p, o, suborder_req, default_priorities)
    IN IF candidates = {}
       THEN [error |-> "NoCapablePrinterError", printer |-> None, score |-> 0]
       ELSE IF scored_candidates = {}
       THEN IF queue_full_printers # {} /\ resource_failures = {}
            THEN [error |-> "QueueOverflowError", printer |-> None, score |-> 0]
            ELSE IF resource_failures # {}
            THEN [error |-> "InsufficientResourceError", printer |-> None, score |-> 0]
            ELSE [error |-> "NoCapablePrinterError", printer |-> None, score |-> 0]
       ELSE [error |-> "none", printer |-> best,
             score |-> score_printer_for_suborder(best, suborder_req)]

----------------------------------------------------------------------------
(* PrinterIndex and the sub-order planner *)

\* capability_index.get(capability, set())
IndexGet(capability) == Get(capability_index, capability, {})

\* one read of find_capable_printers: the first capability starts the result,
\* each later one is intersected into it
LookupReadUnion(acc, k, capability) ==
    IF k = 1 THEN IndexGet(capability) ELSE acc \cup IndexGet(capability)
LookupRead(acc, k, capability) ==
    IF k = 1 THEN IndexGet(capability) ELSE acc \cap IndexGet(capability)

\* the index build_index produces from the fleet
FullIndex ==
    LET caps == UNION {supported[p] : p \in Printers}
    IN [c \in caps |-> {p \in Printers : c \in supported[p]}]

\* order of the type tags inside a 'supported' list and inside list(best)
TypeOrder == << "bw", "color", "thick", "glossy", "postersize", "holographic" >>
TypeRank(t) == CHOOSE n \in 1..Len(TypeOrder) : TypeOrder[n] = t

RECURSIVE SortedTypes(_)
SortedTypes(S) ==
    IF S = {} THEN << >>
    ELSE LET t == CHOOSE x \in S : \A y \in S : TypeRank(x) <= TypeRank(y)
         IN << t >> \o SortedTypes(S \ {t})

\* the (printer, capability) pairs build_index adds, in its loop order
RECURSIVE IndexPairsFrom(_)
IndexPairsFrom(n) ==
    IF n > Len(PrinterOrder) THEN << >>
    ELSE LET caps == SortedTypes(supported[PrinterOrder[n]])
         IN [m \in 1..Len(caps) |-> << PrinterOrder[n], caps[m] >>] \o IndexPairsFrom(n + 1)

IndexPairs == IndexPairsFrom(1)

\* self.capability_index[capability].add(printer_id)
IndexAdd(index, pr) ==
    DictUpdate(index, (pr[2] :> (Get(index, pr[2], {}) \cup {pr[1]})))

\* itertools.combinations order: A comes before B among position sets of one
\* size when the smallest position in which they differ is in A; larger sizes
\* come first (r runs from len(order_types) down to 1)
ComboBefore(A, B) ==
    \/ Cardinality(A) > Cardinality(B)
    \/ /\ Cardinality(A) = Cardinality(B)
       /\ A # B
       /\ SetMin((A \ B) \cup (B \ A)) \in A

RECURSIVE SortCombos(_)
SortCombos(S) ==
    IF S = {} THEN << >>
    ELSE LET A == CHOOSE X \in S : \A Y \in S \ {X} : ComboBefore(X, Y)
         IN << A >> \o SortCombos(S \ {A})

RECURSIVE SortedPositions(_)
SortedPositions(A) ==
    IF A = {} THEN << >>
    ELSE << SetMin(A) >> \o SortedPositions(A \ {SetMin(A)})

\* the combos _valid_supported_combos looks up, each a tuple of types
Combinations(order_types) ==
    LET sets == SortCombos(SUBSET (1..Len(order_types)) \ {{}})
    IN [n \in 1..Len(sets) |->
           LET pos == SortedPositions(sets[n])
           IN [m \in 1..Len(pos) |-> order_types[pos[m]]]]

\* "Remove duplicates" of _valid_supported_combos
RECURSIVE Unique(_, _)
Unique(combos, seen) ==
    IF combos = << >> THEN << >>
    ELSE IF Head(combos) \in seen THEN Unique(Tail(combos), seen)
    ELSE << Head(combos) >> \o Unique(Tail(combos), seen \cup {Head(combos)})

\* a loop that always takes the first combo of the list
FirstCombo(supported_combos, remaining) == 1

\* the combo the greedy loop picks: the first one of the list whose overlap
\* with remaining is the largest (a later one must be strictly larger to win)
BestCombo(supported_combos, remaining) ==
    LET overlap(n) == Cardinality(supported_combos[n] \cap remaining)
    IN CHOOSE n \in DOMAIN supported_combos :
           /\ \A m \in DOMAIN supported_combos : overlap(m) <= overlap(n)
           /\ \A m \in DOMAIN supported_combos : m < n => overlap(m) < overlap(n)

\* a greedy loop that leaves out the types no combo covers
RECURSIVE GreedyCoverSkipping(_, _, _)
GreedyCoverSkipping(supported_combos, remaining, result) ==
    IF remaining = {} THEN [error |-> "none", suborders |-> result]
    ELSE IF \A n \in DOMAIN supported_combos : supported_combos[n] \cap remaining = {}
    THEN [error |-> "none", suborders |-> result]
    ELSE LET best == supported_combos[BestCombo(supported_combos, remaining)]
         IN GreedyCoverSkipping(supported_combos, remaining \ best, Append(result, best))

\* the while loop of generate_suborders_from_order
RECURSIVE GreedyCover(_, _, _)
GreedyCover(supported_combos, remaining, result) ==
    IF remaining = {} THEN [error |-> "none", suborders |-> result]
    ELSE IF \A n \in DOMAIN supported_combos : supported_combos[n] \cap remaining = {}
    THEN [error |-> "NoCapablePrinterError", suborders |-> result]
    ELSE LET best == supported_combos[BestCombo(supported_combos, remaining)]
         IN GreedyCover(supported_combos, remaining \ best, Append(result, best))

\* generate_suborders_from_order, given the combos found supported
generate_suborders_from_order(order, valid_combos) ==
    GreedyCover(Unique(valid_combos, {}), Range(order.keys), << >>)

----------------------------------------------------------------------------
(* Inputs and initial state *)

\* an order: its keys in dict order, and the requirement of each key
Order(keys, req) == [keys |-> keys, req |-> req]

OneSheet == [paper_count |-> [A4 |-> 1]]
OrderBw == Order(<< "bw" >>, [bw |-> OneSheet])
OrderBwColor == Order(<< "bw", "color" >>, [bw |-> OneSheet, color |-> OneSheet])
OrderEmpty == Order(<< >>, << >>)

\* orders the callers of Spec submit
OrderMenu == {OrderBw, OrderBwColor}
OrderIds == {"o1", "o2"}
\* in Spec the calls of one thread schedule under one order id, so that
\* concurrent calls carry different ids
OwnOrderId(t) == IF t = "t1" THEN "o1" ELSE "o2"
Priorities == {5}
\* max_retries arguments (Config.MAX_RETRIES in the source is 3)
RetryMenu == {1, 2}
\* printer_id arguments of cancel_order: None scans every printer
CancelTargets == {None}

\* update_printer_resources arguments of Spec: a refill
UpdateMenu == { [paper_count |-> [A4 |-> MaxPaper], ink |-> [black |-> 2000]] }

\* further alphanumeric keys, for an order of eleven types
ExtraTypes == << "t07", "t08", "t09", "t10", "t11" >>

\* str.isalnum on the keys the orders of the model use ("b-w" is not one)
isalnum(otype) == otype \in Range(TypeOrder) \cup Range(ExtraTypes)

\* a validator that accepts every order
AcceptAll(order) == TRUE

\* Validator.validate_order
validate_order(order) ==
    /\ Len(order.keys) >= 1
    /\ Len(order.keys) <= 10
    /\ \A t \in Range(order.keys) :
           /\ isalnum(t)
           /\ "paper_count" \in DOMAIN order.req[t]
           /\ \A ptype \in DOMAIN order.req[t].paper_count :
                  order.req[t].paper_count[ptype] \in 1..10000

NoResult == [order_id |-> None, assignments |-> << >>, scores |-> << >>,
             suborders |-> << >>]

\* a thread that is not inside a call; outcome and result are those of its
\* last call, and a finished schedule_order leaves its order argument in order.
\* pushes and removed count the jobs the call enqueued and the jobs it removed
\* from the queues; origin is the paper, ink and queue sizes at _create_snapshot.
Idle(outcome, result) ==
    [pc |-> "idle", order |-> OrderEmpty, order_id |-> None, priority |-> 0,
     max_retries |-> 0, attempt |-> 0, queue_sizes |-> << >>,
     ck |-> 0, lk |-> 0, acc |-> {}, valid |-> << >>, suborders |-> << >>, i |-> 0,
     assignments |-> << >>, scores |-> << >>, printer |-> None, score |-> 0,
     snapshot_version |-> 0, pos |-> 0, plist |-> << >>, cancelled |-> FALSE,
     stale_index |-> FALSE, pushes |-> 0, removed |-> 0, origin |-> << >>,
     outcome |-> outcome, result |-> result]

\* the fleet of Spec: P1 prints color only, P2 prints bw only
FleetSupported == [p \in Printers |-> IF p = "P1" THEN {"color"} ELSE {"bw"}]
FleetPaper == [p \in Printers |-> [A4 |-> MaxPaper]]
FleetInk == [p \in Printers |->
               IF p = "P1" THEN [black |-> 1000, C |-> 900, M |-> 920, Y |-> 840]
               ELSE [black |-> 1400]]
FleetSpeed == [p \in Printers |-> IF p = "P1" THEN 20 ELSE 35]

\* popped before any pop
NoPop == [job |-> PrioritizedJob(0, 0, None, << >>), heap |-> << >>]

\* PrinterScheduler.__init__ on a fleet, with queues of the given max_length
\* the planner not called directly
NoPlan == [supported |-> << >>, order_types |-> << >>, suborders |-> << >>,
           outcome |-> "none"]

InitScheduler(fleet_supported, fleet_paper, fleet_ink, fleet_speed, maxlen, max_calls) ==
    /\ supported = fleet_supported
    /\ speed = fleet_speed
    /\ paper_count = fleet_paper
    /\ ink = fleet_ink
    /\ queue = [p \in Printers |-> << >>]
    /\ max_length = [p \in Printers |-> maxlen]
    /\ versions = [p \in Printers |-> 0]
    /\ locks = [p \in Printers |-> NoOne]
    /\ capability_index =
           [c \in UNION {fleet_supported[p] : p \in Printers} |->
               {p \in Printers : c \in fleet_supported[p]}]
    /\ cache = << >>
    /\ th = [t \in Threads |-> Idle("none", NoResult)]
    /\ budget = max_calls
    /\ clock = 0
    /\ initial_paper = fleet_paper
    /\ consumed = [p \in Printers |-> << >>]
    /\ returned = [p \in Printers |-> << >>]
    /\ manual = {}
    /\ published = [p \in Printers |-> [paper_count |-> fleet_paper[p], ink |-> fleet_ink[p]]]
    /\ commits = [p \in Printers |-> << >>]
    /\ popped = NoPop

InitWith(fleet_supported, fleet_paper, fleet_ink, fleet_speed, maxlen, max_calls) ==
    /\ InitScheduler(fleet_supported, fleet_paper, fleet_ink, fleet_speed, maxlen,
                     max_calls)
    /\ planned = NoPlan

Init == InitWith(FleetSupported, FleetPaper, FleetInk, FleetSpeed, MaxQueue, MaxCalls)

----------------------------------------------------------------------------
(* Steps of the calls.  Each caller thread runs one call at a time; a step   *)
(* is one access to shared state or one critical section.                    *)

fleet == << supported, speed, max_length, initial_paper, planned >>

\* thread t is idle and every thread before it is inside a call
CanStart(t) ==
    /\ th[t].pc = "idle"
    /\ \A n, m \in 1..Len(ThreadOrder) :
           (ThreadOrder[m] = t /\ n < m) => th[ThreadOrder[n]].pc # "idle"

AddDict(a, b) == [k \in DOMAIN a \cup DOMAIN b |-> Get(a, k, 0) + Get(b, k, 0)]

\* return or raise: the thread leaves its call with this outcome; the
\* arguments of the call and its counters stay readable
Done(r, outcome, result) ==
    [Idle(outcome, result) EXCEPT !.stale_index = r.stale_index, !.order = r.order,
                                  !.order_id = r.order_id, !.plist = r.plist,
                                  !.pushes = r.pushes, !.removed = r.removed]

\* the start of one run of _schedule_order_internal
BeginAttempt(r, attempt) ==
    [r EXCEPT !.pc = "plan", !.attempt = attempt, !.ck = 1, !.lk = 1, !.acc = {},
              !.valid = << >>, !.suborders = << >>, !.i = 0, !.assignments = << >>,
              !.scores = << >>, !.printer = None, !.score = 0,
              !.snapshot_version = 0, !.pos = 0]

\* SchedulerCache._cache_key over (order, printers_snapshot); printers_snapshot
\* holds the live paper_count and ink dicts and the queue sizes read when
\* _create_snapshot ran
CacheKey(order, queue_sizes) ==
    [order |-> order.req, paper_count |-> paper_count, ink |-> ink,
     queue_size |-> queue_sizes]

\* int(time.time() * 1000), the wall clock in milliseconds: what a call reads
\* does not depend on what an earlier call read, two calls can read one value
MsReadings == {1000, 1001}

\* the order id schedule_order makes when it is called without one
GeneratedId(ms) == IF ms = 1000 THEN "order_1000" ELSE "order_1001"

\* schedule_order up to cache.get: validate_order, the order id, and
\* _create_snapshot, which reads the size of every queue
ScheduleWith(t, menu, ids, retries) ==
    /\ CanStart(t)
    /\ budget > 0
    /\ budget' = budget - 1
    /\ \E order \in menu, given_id \in ids, ms \in MsReadings, priority \in Priorities,
          max_retries \in retries :
         LET order_id == IF given_id = None /\ validate_order(order)
                         THEN GeneratedId(ms) ELSE given_id
             queue_sizes == [p \in Printers |-> Len(queue[p])]
             started == [Idle("none", NoResult) EXCEPT
                            !.order = order, !.order_id = order_id,
                            !.priority = priority, !.max_retries = max_retries,
                            !.queue_sizes = queue_sizes,
                            !.origin = [paper_count |-> paper_count, ink |-> ink,
                                        queue_size |-> queue_sizes]]
         IN th' = [th EXCEPT ![t] =
                      IF ~validate_order(order)
                      THEN Done(started, "ValidationError", NoResult)
                      ELSE [started EXCEPT !.pc = "cache_get"]]
    /\ UNCHANGED << fleet, paper_count, ink, queue, versions, locks, capability_index,
                    cache, clock, consumed, returned, manual, published, commits,
                    popped >>

\* schedule_order called with a max_retries of RetryMenu
ScheduleOrder(t, menu, ids) == ScheduleWith(t, menu, ids, RetryMenu)

\* cache.get of schedule_order, whose key is computed from the live paper and
\* ink dicts and the queue sizes of the snapshot; "expired" is the TTL test on
\* an entry found.  A miss enters the retry loop.
CacheGet(t) ==
    LET r == th[t]
        key == CacheKey(r.order, r.queue_sizes)
        hit == key \in DOMAIN cache
    IN /\ r.pc = "cache_get"
       /\ \E expired \in BOOLEAN :
            /\ expired => hit
            /\ cache' = IF hit /\ expired
                        THEN [k \in DOMAIN cache \ {key} |-> cache[k]]
                        ELSE cache
            /\ th' = [th EXCEPT ![t] =
                        IF hit /\ ~expired THEN Done(r, "ok", cache[key].value)
                        ELSE IF r.max_retries <= 0 THEN Done(r, "None", NoResult)
                        ELSE BeginAttempt(r, 0)]
       /\ UNCHANGED << fleet, paper_count, ink, queue, versions, locks, capability_index,
                       budget, clock, consumed, returned, manual, published, commits,
                       popped >>

\* Index reads and build_index.  The index is written only by build_index, in
\* the retry branch of schedule_order, and a read commutes with every step of
\* another thread but an index write.  So the reads of one lookup are taken
\* one per step while another thread is in build_index, and in one step (they
\* see one index) otherwise.
ReadsPerStep(t) ==
    IF \E u \in Threads \ {t} : th[u].pc \in {"rebuild", "rebuild_add"}
    THEN 1 ELSE 1000

\* n reads of find_capable_printers(caps), from read lk on with result acc
RECURSIVE FindReads(_, _, _, _)
FindReads(caps, lk, acc, n) ==
    IF lk > Len(caps) \/ n = 0 THEN [lk |-> lk, acc |-> acc]
    ELSE FindReads(caps, lk + 1, LookupRead(acc, lk, caps[lk]), n - 1)

\* n reads of the loop of _valid_supported_combos, from read lk of combo ck on:
\* a combo whose lookup is not empty is appended to the valid ones
RECURSIVE ComboReads(_, _, _, _, _, _)
ComboReads(combos, ck, lk, acc, valid, n) ==
    IF ck > Len(combos) \/ n = 0
    THEN [ck |-> ck, lk |-> lk, acc |-> acc, valid |-> valid]
    ELSE LET combo == combos[ck]
             found == LookupRead(acc, lk, combo[lk])
         IN IF lk < Len(combo)
            THEN ComboReads(combos, ck, lk + 1, found, valid, n - 1)
            ELSE ComboReads(combos, ck + 1, 1, {},
                            IF found # {} THEN Append(valid, Range(combo)) ELSE valid,
                            n - 1)

\* generate_suborders_from_order: index reads of _valid_supported_combos and,
\* after the last one, the greedy loop
PlanLookup(t) ==
    LET r == th[t]
        combos == Combinations(r.order.keys)
        rd == ComboReads(combos, r.ck, r.lk, r.acc, r.valid, ReadsPerStep(t))
        plan == generate_suborders_from_order(r.order, rd.valid)
        seen == [r EXCEPT !.stale_index = @ \/ capability_index # FullIndex]
    IN /\ r.pc = "plan"
       /\ th' = [th EXCEPT ![t] =
                   IF rd.ck <= Len(combos)
                   THEN [seen EXCEPT !.ck = rd.ck, !.lk = rd.lk, !.acc = rd.acc,
                                     !.valid = rd.valid]
                   ELSE IF plan.error # "none"
                   THEN Done(seen, plan.error, NoResult)
                   ELSE [seen EXCEPT !.pc = "assign", !.suborders = plan.suborders,
                                     !.i = 1, !.ck = 0, !.lk = 1, !.acc = {},
                                     !.valid = << >>]]
       /\ UNCHANGED << fleet, paper_count, ink, queue, versions, locks, capability_index,
                       cache, budget, clock, consumed, returned, manual, published,
                       commits, popped >>

\* assign_printer_for_suborder: index reads of find_capable_printers and, after
\* the last one, the scoring of the candidates and the choice of the best
AssignPrinter(t) ==
    LET r == th[t]
        caps == SortedTypes(r.suborders[r.i])
        rd == FindReads(caps, r.lk, r.acc, ReadsPerStep(t))
        a == assign_printer_for_suborder(r.suborders[r.i], r.order, << >>, rd.acc)
        seen == [r EXCEPT !.stale_index = @ \/ capability_index # FullIndex]
    IN /\ r.pc = "assign"
       /\ th' = [th EXCEPT ![t] =
                   IF rd.lk <= Len(caps)
                   THEN [seen EXCEPT !.lk = rd.lk, !.acc = rd.acc]
                   ELSE IF a.error # "none"
                   THEN Done(seen, a.error, NoResult)
                   ELSE [seen EXCEPT !.pc = "snapshot", !.printer = a.printer,
                                     !.score = a.score, !.lk = 1, !.acc = {}]]
       /\ UNCHANGED << fleet, paper_count, ink, queue, versions, locks, capability_index,
                       cache, budget, clock, consumed, returned, manual, published,
                       commits, popped >>

\* ResourceManager.get_snapshot: reads the version without the printer lock
GetSnapshot(t) ==
    LET r == th[t]
    IN /\ r.pc = "snapshot"
       /\ th' = [th EXCEPT ![t] = [r EXCEPT !.pc = "consume",
                                            !.snapshot_version = versions[r.printer]]]
       /\ UNCHANGED << fleet, paper_count, ink, queue, versions, locks, capability_index,
                       cache, budget, clock, consumed, returned, manual, published,
                       commits, popped >>

\* ResourceManager.acquire_printer: lock.acquire() returns when the lock is free
LockIgnored(p) == TRUE
LockFree(p) == locks[p] = NoOne

\* lock.release() in the finally of acquire_printer
NeverReleased(p) == locks
Release(p) == [locks EXCEPT ![p] = NoOne]

\* "if attempt < max_retries - 1" of the retry branch of schedule_order
AlwaysRetry(attempt, max_retries) == TRUE
CanRetry(attempt, max_retries) == attempt < max_retries - 1

\* validate_and_consume from acquire_printer to the end of its checks.  A
\* raise leaves the with-block, so the lock is free again; ResourceConflictError
\* goes to the retry branch of schedule_order, any other error to the caller.
ValidateAndConsume(t) ==
    LET r == th[t]
        p == r.printer
        res == ValidateResult(p, SuborderReq(r.order, r.suborders[r.i]), r.snapshot_version)
    IN /\ r.pc = "consume"
       /\ LockFree(p)
       /\ locks' = IF res = "ok" THEN [locks EXCEPT ![p] = t] ELSE locks
       /\ th' = [th EXCEPT ![t] =
                   IF res = "ok" THEN [r EXCEPT !.pc = "subtract"]
                   ELSE IF res = "ResourceConflictError" /\ CanRetry(r.attempt, r.max_retries)
                   THEN [r EXCEPT !.pc = "rebuild"]
                   ELSE Done(r, res, NoResult)]
       /\ UNCHANGED << fleet, paper_count, ink, queue, versions, capability_index,
                       cache, budget, clock, consumed, returned, manual, published,
                       commits, popped >>

\* "Consume resources" of validate_and_consume, inside the lock
ConsumeResources(t) ==
    LET r == th[t]
        p == r.printer
        suborder_req == SuborderReq(r.order, r.suborders[r.i])
    IN /\ r.pc = "subtract"
       /\ paper_count' = [paper_count EXCEPT ![p] = ConsumePaper(@, suborder_req)]
       /\ ink' = [ink EXCEPT ![p] = ConsumeInk(@, suborder_req)]
       /\ consumed' = [consumed EXCEPT ![p] = AddDict(@, PaperNeeded(suborder_req))]
       /\ th' = [th EXCEPT ![t] = [r EXCEPT !.pc = "commit"]]
       /\ UNCHANGED << fleet, queue, versions, locks, capability_index, cache, budget,
                       clock, returned, manual, published, commits, popped >>

\* "Increment version" of validate_and_consume and the release of the lock
CommitVersion(t) ==
    LET r == th[t]
        p == r.printer
    IN /\ r.pc = "commit"
       /\ versions' = [versions EXCEPT ![p] = NextVersion(@)]
       /\ locks' = Release(p)
       /\ published' = [published EXCEPT
                           ![p] = [paper_count |-> paper_count[p], ink |-> ink[p]]]
       /\ commits' = [commits EXCEPT
                         ![p] = AddDict(@, (r.snapshot_version :> 1))]
       /\ th' = [th EXCEPT ![t] = [r EXCEPT !.pc = "push"]]
       /\ UNCHANGED << fleet, paper_count, ink, queue, capability_index, cache, budget,
                       clock, consumed, returned, manual, popped >>


\* printer_info['queue'].push(order_id, suborder_req, priority) and what
\* follows it in _schedule_order_internal: the next sub-order, or the return
\* of the result to schedule_order.  QueueOverflowError is not caught by
\* _schedule_order_internal: it reaches the caller.
QueuePush(t) ==
    LET r == th[t]
        p == r.printer
        suborder_req == SuborderReq(r.order, r.suborders[r.i])
        job == PrioritizedJob(r.priority, clock, r.order_id, suborder_req)
        res == push(queue[p], max_length[p], job)
        pushed == [r EXCEPT !.assignments = Append(r.assignments, p),
                            !.scores = Append(r.scores, r.score),
                            !.pushes = r.pushes + 1]
    IN /\ r.pc = "push"
       /\ clock' = clock + 1
       /\ queue' = [queue EXCEPT ![p] = res.heap]
       /\ th' = [th EXCEPT ![t] =
                   IF res.overflow THEN Done(r, "QueueOverflowError", NoResult)
                   ELSE IF r.i = Len(r.suborders) THEN [pushed EXCEPT !.pc = "cache_set"]
                   ELSE [pushed EXCEPT !.pc = "assign", !.i = r.i + 1, !.lk = 1,
                                       !.acc = {}]]
       /\ UNCHANGED << fleet, paper_count, ink, versions, locks, capability_index, cache,
                       budget, consumed, returned, manual, published, commits, popped >>

\* cache.set of schedule_order and the return of the result; the key is
\* computed from the live paper and ink dicts and the queue sizes of the
\* snapshot taken when the call started
CacheSet(t) ==
    LET r == th[t]
        result == [order_id |-> r.order_id, assignments |-> r.assignments,
                   scores |-> r.scores, suborders |-> r.suborders]
    IN /\ r.pc = "cache_set"
       /\ cache' = DictUpdate(cache, (CacheKey(r.order, r.queue_sizes) :>
                                          [value |-> result, origin |-> r.origin]))
       /\ th' = [th EXCEPT ![t] = Done(r, "ok", result)]
       /\ UNCHANGED << fleet, paper_count, ink, queue, versions, locks, capability_index,
                       budget, clock, consumed, returned, manual, published, commits,
                       popped >>

\* the retry branch of schedule_order: build_index starts with
\* capability_index.clear()
RebuildClear(t) ==
    LET r == th[t]
    IN /\ r.pc = "rebuild"
       /\ capability_index' = << >>
       /\ th' = [th EXCEPT ![t] =
                   IF IndexPairs = << >> THEN BeginAttempt(r, r.attempt + 1)
                   ELSE [r EXCEPT !.pc = "rebuild_add", !.pos = 1]]
       /\ UNCHANGED << fleet, paper_count, ink, queue, versions, locks, cache, budget,
                       clock, consumed, returned, manual, published, commits, popped >>

\* one capability_index[capability].add(printer_id) of build_index; after the
\* last one the next attempt of the retry loop starts
RebuildAdd(t) ==
    LET r == th[t]
    IN /\ r.pc = "rebuild_add"
       /\ capability_index' = IndexAdd(capability_index, IndexPairs[r.pos])
       /\ th' = [th EXCEPT ![t] =
                   IF r.pos < Len(IndexPairs) THEN [r EXCEPT !.pos = r.pos + 1]
                   ELSE BeginAttempt(r, r.attempt + 1)]
       /\ UNCHANGED << fleet, paper_count, ink, queue, versions, locks, cache, budget,
                       clock, consumed, returned, manual, published, commits, popped >>

\* paper of the jobs of a list, per paper kind
RECURSIVE PaperOfJobs(_)
PaperOfJobs(jobs) ==
    IF jobs = << >> THEN << >>
    ELSE AddDict(PaperNeeded(Head(jobs).job_data), PaperOfJobs(Tail(jobs)))

\* one turn of the loop of cancel_order: under the queue's lock, filter the
\* jobs of order_id out, heapify, set cancelled; after the last printer, return
CancelScan(t, r) ==
    LET p == r.plist[r.pos]
        known == p \in Printers
        removed == IF known
                   THEN SelectSeq(queue[p], LAMBDA job : job.job_id = r.order_id)
                   ELSE << >>
        cancelled == r.cancelled \/ known
    IN /\ queue' = IF known THEN [queue EXCEPT ![p] = RemoveJobs(@, r.order_id)]
                   ELSE queue
       /\ returned' = IF known THEN [returned EXCEPT ![p] = AddDict(@, PaperOfJobs(removed))]
                      ELSE returned
       /\ th' = [th EXCEPT ![t] =
                   IF r.pos < Len(r.plist)
                   THEN [r EXCEPT !.pos = r.pos + 1, !.cancelled = cancelled,
                                  !.removed = r.removed + Len(removed)]
                   ELSE Done([r EXCEPT !.removed = r.removed + Len(removed)],
                             IF cancelled THEN "True" ELSE "False", NoResult)]

\* cancel_order(order_id, printer_id): the call and the first turn of its loop
CancelOrder(t, ids, targets) ==
    /\ CanStart(t)
    /\ budget > 0
    /\ budget' = budget - 1
    /\ \E order_id \in ids, printer_id \in targets :
         CancelScan(t, [Idle("none", NoResult) EXCEPT
                           !.pc = "cancel", !.order_id = order_id, !.pos = 1,
                           !.plist = IF printer_id = None THEN PrinterOrder
                                     ELSE << printer_id >>])
    /\ UNCHANGED << fleet, paper_count, ink, versions, locks, capability_index, cache,
                    clock, consumed, manual, published, commits, popped >>

\* a later turn of the loop of cancel_order
CancelNext(t) ==
    /\ th[t].pc = "cancel"
    /\ CancelScan(t, th[t])
    /\ UNCHANGED << fleet, paper_count, ink, versions, locks, capability_index, cache,
                    budget, clock, consumed, manual, published, commits, popped >>

\* update_printer_resources: the check of printer_id, then acquire_printer and
\* the two dict updates
UpdateResources(t, targets, menu) ==
    /\ CanStart(t)
    /\ budget > 0
    /\ budget' = budget - 1
    /\ \E printer_id \in targets, u \in menu :
         IF printer_id \notin Printers
         THEN /\ th' = [th EXCEPT ![t] = [Idle("ValidationError", NoResult) EXCEPT
                                             !.printer = printer_id]]
              /\ UNCHANGED << locks, paper_count, ink, manual >>
         ELSE /\ LockFree(printer_id)
              /\ locks' = [locks EXCEPT ![printer_id] = t]
              /\ paper_count' = [paper_count EXCEPT
                                    ![printer_id] = DictUpdate(@, u.paper_count)]
              /\ ink' = [ink EXCEPT ![printer_id] = DictUpdate(@, u.ink)]
              /\ manual' = manual \cup {printer_id}
              /\ th' = [th EXCEPT ![t] = [Idle("none", NoResult) EXCEPT
                                             !.pc = "update_commit",
                                             !.printer = printer_id]]
    /\ UNCHANGED << fleet, queue, versions, capability_index, cache, clock, consumed,
                    returned, published, commits, popped >>

\* update_printer_resources: the version increment, cache.clear() and the
\* release of the lock
UpdateCommit(t) ==
    LET r == th[t]
        p == r.printer
    IN /\ r.pc = "update_commit"
       /\ versions' = [versions EXCEPT ![p] = NextVersion(@)]
       /\ published' = [published EXCEPT
                           ![p] = [paper_count |-> paper_count[p], ink |-> ink[p]]]
       /\ cache' = << >>
       /\ locks' = Release(p)
       /\ th' = [th EXCEPT ![t] = Done(r, "ok", NoResult)]
       /\ UNCHANGED << fleet, paper_count, ink, queue, capability_index, budget, clock,
                       consumed, returned, manual, commits, popped >>

\* PriorityQueue.pop on a queue that holds a job, called by the execution backend
QueuePop(p) ==
    /\ queue[p] # << >>
    /\ budget > 0
    /\ budget' = budget - 1
    /\ queue' = [queue EXCEPT ![p] = HeapPop(@).heap]
    /\ popped' = [job |-> HeapPop(queue[p]).item, heap |-> queue[p]]
    /\ UNCHANGED << fleet, paper_count, ink, versions, locks, capability_index, cache,
                    th, clock, consumed, returned, manual, published, commits >>

Next ==
    \/ \E t \in Threads :
         \/ ScheduleOrder(t, OrderMenu, {OwnOrderId(t)})
         \/ CacheGet(t)
         \/ PlanLookup(t)
         \/ AssignPrinter(t)
         \/ GetSnapshot(t)
         \/ ValidateAndConsume(t)
         \/ ConsumeResources(t)
         \/ CommitVersion(t)
         \/ QueuePush(t)
         \/ CacheSet(t)
         \/ RebuildClear(t)
         \/ RebuildAdd(t)
         \/ CancelOrder(t, OrderIds, CancelTargets)
         \/ CancelNext(t)
         \/ UpdateResources(t, Printers, UpdateMenu)
         \/ UpdateCommit(t)
    \/ \E p \in Printers : QueuePop(p)

Spec == Init /\ [][Next]_vars

----------------------------------------------------------------------------
(* One caller thread on a fleet whose printers overlap: P1 prints bw and     *)
(* color, P2 prints bw and thick.                                            *)

SeqSupported == [p \in Printers |-> IF p = "P1" THEN {"bw", "color"} ELSE {"bw", "thick"}]
SeqInk == [p \in Printers |-> [black |-> 1000, C |-> 900, M |-> 920, Y |-> 840]]
SeqSpeed == [p \in Printers |-> 30]

OrderBwColorThick ==
    Order(<< "bw", "color", "thick" >>,
          [bw |-> OneSheet, color |-> OneSheet, thick |-> OneSheet])
\* an order with a type that no printer of the fleet supports (test 4b)
OrderBwHolo ==
    Order(<< "bw", "holographic" >>, [bw |-> OneSheet, holographic |-> OneSheet])
SeqOrderMenu == {OrderBw, OrderBwColorThick, OrderBwHolo}
SeqCancelTargets == {None, "P2"}

\* update_printer_resources arguments of SpecSeq: a refill, and values out of range
SeqUpdateMenu ==
    UpdateMenu \cup { [paper_count |-> [A4 |-> -1], ink |-> [black |-> 2020]] }

\* printer_id arguments of update_printer_resources in SpecSeq: the fleet and
\* an id that is not in printers_data
SeqUpdateTargets == Printers \cup {"P9"}

InitSeq == InitWith(SeqSupported, FleetPaper, SeqInk, SeqSpeed, MaxQueue, MaxSeqCalls)

NextSeq ==
    \/ ScheduleOrder("t1", SeqOrderMenu, OrderIds)
    \/ CacheGet("t1")
    \/ PlanLookup("t1")
    \/ AssignPrinter("t1")
    \/ GetSnapshot("t1")
    \/ ValidateAndConsume("t1")
    \/ ConsumeResources("t1")
    \/ CommitVersion("t1")
    \/ QueuePush("t1")
    \/ CacheSet("t1")
    \/ CancelOrder("t1", OrderIds, SeqCancelTargets)
    \/ CancelNext("t1")
    \/ UpdateResources("t1", SeqUpdateTargets, SeqUpdateMenu)
    \/ UpdateCommit("t1")
    \/ \E p \in Printers : QueuePop(p)

SpecSeq == InitSeq /\ [][NextSeq]_vars

----------------------------------------------------------------------------
(* The queue of P1 alone: push, pop and cancel_order called directly.        *)

QueuePriorities == {1, 5}

\* PriorityQueue.push(job_id, job_data, priority) on the queue of printer p
DirectPush(p) ==
    /\ budget > 0
    /\ budget' = budget - 1
    /\ clock' = clock + 1
    /\ \E order_id \in OrderIds, priority \in QueuePriorities :
         LET job == PrioritizedJob(priority, clock, order_id, [bw |-> OneSheet])
             res == push(queue[p], max_length[p], job)
         IN /\ queue' = [queue EXCEPT ![p] = res.heap]
            /\ th' = [th EXCEPT !["t2"] =
                        Idle(IF res.overflow THEN "QueueOverflowError" ELSE "pushed",
                             NoResult)]
    /\ UNCHANGED << fleet, paper_count, ink, versions, locks, capability_index, cache,
                    consumed, returned, manual, published, commits, popped >>

InitQ == InitWith(FleetSupported, FleetPaper, FleetInk, FleetSpeed, MaxQueue + 3,
                  MaxQueueOps)

NextQ ==
    \/ DirectPush("P1")
    \/ QueuePop("P1")
    \/ CancelOrder("t1", OrderIds, SeqCancelTargets)
    \/ CancelNext("t1")

SpecQ == InitQ /\ [][NextQ]_vars

----------------------------------------------------------------------------
(* Two callers, one schedule_order call each, for the same bw order on a     *)
(* fleet in which P1 alone prints: P2 has an empty supported list, so it is  *)
(* never a candidate.  The queues hold both jobs.                            *)

PairSupported == [p \in Printers |-> IF p = "P1" THEN {"bw"} ELSE {}]
PairCalls == 2

InitPair == InitWith(PairSupported, FleetPaper, FleetInk, FleetSpeed, MaxQueue + 1,
                     PairCalls)

NextPair ==
    \E t \in Threads :
        \/ ScheduleOrder(t, {OrderBw}, {OwnOrderId(t)})
        \/ CacheGet(t)
        \/ PlanLookup(t)
        \/ AssignPrinter(t)
        \/ GetSnapshot(t)
        \/ ValidateAndConsume(t)
        \/ ConsumeResources(t)
        \/ CommitVersion(t)
        \/ QueuePush(t)
        \/ CacheSet(t)
        \/ RebuildClear(t)
        \/ RebuildAdd(t)

SpecPair == InitPair /\ [][NextPair]_vars

----------------------------------------------------------------------------
(* One caller on a fleet of two printers that both print bw and color: P1 is *)
(* fast and full of ink but holds one sheet, P2 is slow, half full of ink    *)
(* and holds more paper.                                                     *)

ResSupported == [p \in Printers |-> {"bw", "color"}]
ResPaper == [p \in Printers |-> [A4 |-> IF p = "P1" THEN 1 ELSE MaxPaper]]
ResInk == [p \in Printers |->
             IF p = "P1" THEN [black |-> 2000, C |-> 2000, M |-> 2000, Y |-> 2000]
             ELSE [black |-> 1000, C |-> 1000, M |-> 1000, Y |-> 1000]]
ResSpeed == [p \in Printers |-> IF p = "P1" THEN 100 ELSE 10]

InitRes == InitWith(ResSupported, ResPaper, ResInk, ResSpeed, MaxQueue + 1, MaxSeqCalls)

NextRes ==
    \/ ScheduleOrder("t1", OrderMenu, OrderIds)
    \/ CacheGet("t1")
    \/ PlanLookup("t1")
    \/ AssignPrinter("t1")
    \/ GetSnapshot("t1")
    \/ ValidateAndConsume("t1")
    \/ ConsumeResources("t1")
    \/ CommitVersion("t1")
    \/ QueuePush("t1")
    \/ CacheSet("t1")
    \/ \E p \in Printers : QueuePop(p)

SpecRes == InitRes /\ [][NextRes]_vars

----------------------------------------------------------------------------
(* One caller submitting a valid order and orders that validate_order        *)
(* rejects: empty, eleven types, a key with a hyphen, no paper_count, counts *)
(* out of 1..10000 (tests 4c and 4d).                                        *)

OrderElevenKeys ==
    Order(TypeOrder \o ExtraTypes,
          [t \in Range(TypeOrder) \cup Range(ExtraTypes) |-> OneSheet])
OrderBadKey == Order(<< "b-w" >>, [t \in {"b-w"} |-> OneSheet])
OrderNoPaperCount == Order(<< "bw" >>, [bw |-> [copies |-> 1]])
OrderNegative == Order(<< "bw" >>, [bw |-> [paper_count |-> [A4 |-> -5]]])
OrderTooMany == Order(<< "bw" >>, [bw |-> [paper_count |-> [A4 |-> 10001]]])
InvalidOrders ==
    {OrderEmpty, OrderElevenKeys, OrderBadKey, OrderNoPaperCount, OrderNegative,
     OrderTooMany}

NextVal ==
    \/ ScheduleOrder("t1", {OrderBw} \cup InvalidOrders, {"o1"})
    \/ CacheGet("t1")
    \/ PlanLookup("t1")
    \/ AssignPrinter("t1")
    \/ GetSnapshot("t1")
    \/ ValidateAndConsume("t1")
    \/ ConsumeResources("t1")
    \/ CommitVersion("t1")
    \/ QueuePush("t1")
    \/ CacheSet("t1")
    \/ \E p \in Printers : QueuePop(p)

SpecVal == InitSeq /\ [][NextVal]_vars

----------------------------------------------------------------------------
(* generate_suborders_from_order as a function of the fleet's supported      *)
(* lists and the order's types, on fleets of three printers.                 *)

PlanPrinters == {"P1", "P2", "P3"}
PlanSupportedMenu ==
    { {"bw", "color", "thick", "glossy"}, {"bw", "color", "postersize"},
      {"thick", "glossy", "holographic"}, {"bw"} }
\* key orders of the order; the last one is not in the order of the tags
PlanOrderTypes == { TypeOrder, << "bw", "color", "thick" >>, << "thick", "bw" >> }

\* the list _valid_supported_combos builds when the index is the one
\* build_index made of the fleet: find_capable_printers(combo) is the set of
\* printers whose supported list holds every type of the combo
PlanValidCombos(fleet_supported, order_types) ==
    LET combos == Combinations(order_types)
        capable(combo) == {p \in DOMAIN fleet_supported :
                              Range(combo) \subseteq fleet_supported[p]}
        valid == SelectSeq(combos, LAMBDA combo : capable(combo) # {})
    IN [n \in 1..Len(valid) |-> Range(valid[n])]

InitPlan ==
    /\ InitScheduler(FleetSupported, FleetPaper, FleetInk, FleetSpeed, MaxQueue, MaxCalls)
    /\ planned \in [supported : [PlanPrinters -> PlanSupportedMenu],
                 order_types : PlanOrderTypes,
                 suborders : {<< >>}, outcome : {"none"}]

\* one call of generate_suborders_from_order
GenerateSuborders ==
    LET r == generate_suborders_from_order(
                 Order(planned.order_types, << >>),
                 PlanValidCombos(planned.supported, planned.order_types))
    IN /\ planned.outcome = "none"
       /\ planned' = [planned EXCEPT !.suborders = r.suborders,
                               !.outcome = IF r.error = "none" THEN "ok" ELSE r.error]
       /\ UNCHANGED << supported, speed, paper_count, ink, queue, max_length, versions,
                       locks, capability_index, cache, th, budget, clock, initial_paper,
                       consumed, returned, manual, published, commits, popped >>

NextPlan == GenerateSuborders

SpecPlan == InitPlan /\ [][NextPlan]_vars

----------------------------------------------------------------------------
(* Properties *)

\* the threads that returned an assignment result from schedule_order
Succeeded == {t \in Threads : th[t].outcome = "ok" /\ th[t].result.assignments # << >>}

\* the requirement of the sub-order a scheduling thread is working on
CurrentReq(t) == SuborderReq(th[t].order, th[t].suborders[th[t].i])

\* C1: for every order whose schedule_order call succeeds, the sub-orders of
\* the result are pairwise disjoint and their union is the set of the order's
\* keys: no print type of the order is in two sub-orders.
C1_CoverDisjoint ==
    \A t \in Succeeded :
        LET suborders == th[t].result.suborders
        IN /\ UNION Range(suborders) = Range(th[t].order.keys)
           /\ \A n, m \in DOMAIN suborders :
                  n # m => suborders[n] \cap suborders[m] = {}

\* C2: for every printer (not edited by update_printer_resources) and paper
\* kind, the current paper_count is the initial count, minus the paper consumed
\* by successful commits, plus the paper of the queued jobs that cancel_order
\* removed.
C2_PaperConservation ==
    \A p \in Printers \ manual : \A ptype \in DOMAIN paper_count[p] :
        paper_count[p][ptype] =
            initial_paper[p][ptype] - Get(consumed[p], ptype, 0)
                + Get(returned[p], ptype, 0)

\* C3: in every reachable state every paper count is at least 0 and every ink
\* level is between 0 and 100 percent (2000 units of 0.05 percent).
C3_ResourceRanges ==
    \A p \in Printers :
        /\ \A ptype \in DOMAIN paper_count[p] : paper_count[p][ptype] >= 0
        /\ \A channel \in DOMAIN ink[p] : ink[p][channel] >= 0 /\ ink[p][channel] <= 2000

\* C4: a validate_and_consume whose snapshot version differs from the
\* printer's current version ends in ResourceConflictError (raised to the
\* caller or caught by the retry branch) and changes no paper, ink, version or
\* queue; when the versions are equal it goes on to the resource checks, whose
\* outcome is the consumption or InsufficientResourceError.
C4_ConflictChangesNothing ==
    [][\A t \in Threads :
          (th[t].pc = "consume" /\ th'[t] # th[t]) =>
              IF versions[th[t].printer] # th[t].snapshot_version
              THEN /\ \/ th'[t].pc = "rebuild"
                      \/ th'[t].pc = "idle" /\ th'[t].outcome = "ResourceConflictError"
                   /\ UNCHANGED << paper_count, ink, versions, queue >>
              ELSE \/ th'[t].pc = "subtract"
                   \/ th'[t].pc = "idle" /\ th'[t].outcome = "InsufficientResourceError"]_vars

\* a consume has met a changed version and the call is in its retry branch
C4_Witness == \E t \in Threads : th[t].pc = "rebuild"

\* C5: between the version check and the version increment of a successful
\* validate_and_consume on printer P the thread holds P's lock, no other
\* validate_and_consume or update_printer_resources is inside its critical
\* section on P, the version is still the snapshot's, paper and ink are those
\* at the version check (before the subtraction) or those minus all that the
\* sub-order needs (after it); and a version changes by exactly 1.
C5_ConsumeAtomic ==
    /\ [](\A t \in Threads :
            th[t].pc \in {"subtract", "commit"} =>
                LET p == th[t].printer
                IN /\ locks[p] = t
                   /\ \A u \in Threads \ {t} :
                          ~(th[u].pc \in {"subtract", "commit", "update_commit"}
                                /\ th[u].printer = p)
                   /\ versions[p] = th[t].snapshot_version
                   /\ th[t].pc = "subtract" =>
                          /\ paper_count[p] = published[p].paper_count
                          /\ ink[p] = published[p].ink
                   /\ th[t].pc = "commit" =>
                          /\ paper_count[p] = ConsumePaper(published[p].paper_count,
                                                           CurrentReq(t))
                          /\ ink[p] = ConsumeInk(published[p].ink, CurrentReq(t)))
    /\ [][\A t \in Threads :
            th[t].pc = "commit" /\ th'[t] # th[t] =>
                versions'[th[t].printer] = versions[th[t].printer] + 1]_vars

\* a consume is past its subtraction while another call waits to consume on
\* the same printer
C5_Witness ==
    \E t, u \in Threads :
        /\ th[t].pc = "commit"
        /\ th[u].pc = "consume"
        /\ th[u].printer = th[t].printer

\* the successful consumes on printer p so far
CommitCount(p) == SumOver(commits[p], DOMAIN commits[p])

\* at most one validate_and_consume given a snapshot of version V of printer P
\* has succeeded
OneCommitPerVersion ==
    \A p \in Printers : \A v \in DOMAIN commits[p] : commits[p][v] <= 1

\* thread t attempts its consume holding a snapshot version that another
\* consume has already succeeded with
LateConsume(t) ==
    /\ th[t].pc = "consume"
    /\ Get(commits[th[t].printer], th[t].snapshot_version, 0) >= 1

\* C6 as stated: for any printer P and version V at most one validate_and_consume
\* given a version-V snapshot succeeds, and any other call that attempts its
\* consume with a version-V snapshot afterwards gets ResourceConflictError and
\* is retried by schedule_order.
C6_LoserAlwaysRetried ==
    /\ []OneCommitPerVersion
    /\ [][\A t \in Threads :
            (LateConsume(t) /\ th'[t] # th[t]) => th'[t].pc = "rebuild"]_vars

\* C6 amended: at most one validate_and_consume per printer and snapshot
\* version succeeds; a later consume with that snapshot version gets
\* ResourceConflictError, which schedule_order retries when attempts remain
\* (attempt < max_retries - 1) and raises to the caller on the last attempt.
C6_OneConsumePerVersion ==
    /\ []OneCommitPerVersion
    /\ [][\A t \in Threads :
            (LateConsume(t) /\ th'[t] # th[t]) =>
                IF th[t].attempt < th[t].max_retries - 1
                THEN th'[t].pc = "rebuild"
                ELSE th'[t].pc = "idle" /\ th'[t].outcome = "ResourceConflictError"]_vars

\* a call met the conflict on a snapshot version that another call's consume
\* succeeded with, and is being retried
C6_Witness ==
    \E t \in Threads :
        /\ th[t].pc = "rebuild"
        /\ Get(commits[th[t].printer], th[t].snapshot_version, 0) = 1

\* C7: a printer's version never decreases; whenever no critical section is
\* open on a printer its paper and ink are those recorded when its version was
\* last set, and a step that leaves the printer unlocked with other paper or
\* ink than those has strictly increased its version.
C7_VersionMonotonic ==
    /\ [](\A p \in Printers :
            locks[p] = NoOne =>
                paper_count[p] = published[p].paper_count /\ ink[p] = published[p].ink)
    /\ [][\A p \in Printers :
            /\ versions'[p] >= versions[p]
            /\ (/\ locks'[p] = NoOne
                /\ \/ paper_count'[p] # published[p].paper_count
                   \/ ink'[p] # published[p].ink)
                   => versions'[p] > versions[p]]_vars

\* a printer whose paper was consumed and then refilled: its version has grown twice
C7_Witness ==
    \E p \in Printers :
        /\ versions[p] >= 2
        /\ p \in manual
        /\ CommitCount(p) >= 1
        /\ locks[p] = NoOne

\* C8: the length of each printer's queue is at most its max_length, and a
\* push on a queue whose length equals max_length raises QueueOverflowError
\* and leaves the queue unchanged.
C8_QueueBound ==
    /\ [](\A p \in Printers : Len(queue[p]) <= max_length[p])
    /\ [][\A t \in Threads :
            (/\ th[t].pc = "push"
             /\ th'[t] # th[t]
             /\ Len(queue[th[t].printer]) = max_length[th[t].printer])
                => /\ th'[t].pc = "idle"
                   /\ th'[t].outcome = "QueueOverflowError"
                   /\ queue' = queue]_vars

\* two consumes succeeded on a printer whose full queue holds one job, nothing
\* was popped or cancelled: the push of the second met the full queue
C8_Witness ==
    \E t \in Threads, p \in Printers :
        /\ th[t].outcome = "QueueOverflowError"
        /\ CommitCount(p) = 2
        /\ Len(queue[p]) = max_length[p]
        /\ popped = NoPop
        /\ returned[p] = << >>

\* C9: pop returns a job with the smallest priority value in the queue, and
\* among the jobs of that priority the one pushed earliest.
C9_PopOrder ==
    popped # NoPop =>
        \A n \in DOMAIN popped.heap :
            \/ popped.job.priority < popped.heap[n].priority
            \/ /\ popped.job.priority = popped.heap[n].priority
               /\ popped.job.timestamp <= popped.heap[n].timestamp

\* C10: in every result returned by schedule_order, and in every assignment
\* made so far by a call in progress, every print type of the sub-order is in
\* the supported set of the printer it is assigned to.
C10_CapabilitySound ==
    \A t \in Threads :
        /\ \A n \in DOMAIN th[t].result.assignments :
               th[t].result.suborders[n] \subseteq supported[th[t].result.assignments[n]]
        /\ \A n \in DOMAIN th[t].assignments :
               th[t].suborders[n] \subseteq supported[th[t].assignments[n]]
        /\ th[t].pc \in {"snapshot", "consume", "subtract", "commit", "push"} =>
               th[t].suborders[th[t].i] \subseteq supported[th[t].printer]

\* a call returned assignments after looking capabilities up in an index that
\* another call's retry was rebuilding
C10_Witness ==
    \E t \in Succeeded : th[t].stale_index

\* C11: every schedule_order call that returned an assignment result has,
\* during that call, pushed a job for each sub-order of the result (each push
\* follows a successful validate_and_consume of the same call).
C11_CacheHitReserves ==
    \A t \in Succeeded : th[t].pushes >= Len(th[t].result.assignments)

\* the fleet state the cache key is made of: paper counts, ink levels and
\* queue sizes of all printers
LiveDigest ==
    [paper_count |-> paper_count, ink |-> ink,
     queue_size |-> [p \in Printers |-> Len(queue[p])]]

\* C12: a call that cache.get answers from the cache runs in a fleet state
\* (paper counts, ink levels, queue sizes) equal to the one at the start of
\* the schedule_order call that stored the entry.
C12_HitOnOriginDigest ==
    \A t \in Threads :
        LET key == CacheKey(th[t].order, th[t].queue_sizes)
        IN (th[t].pc = "cache_get" /\ key \in DOMAIN cache) =>
               cache[key].origin = LiveDigest

\* C13: with one caller, no pop and no update_printer_resources, once a
\* cancel_order has removed jobs and every queue is empty again (every job
\* scheduled so far has been cancelled before it was popped), every printer's
\* paper counts and ink levels are back at their values before the
\* schedule_order calls.
C13_CancelRestores ==
    \A t \in Threads :
        ( /\ th[t].outcome = "True"
          /\ th[t].removed > 0
          /\ manual = {}
          /\ popped = NoPop
          /\ \A p \in Printers : queue[p] = << >> ) =>
            /\ paper_count = initial_paper
            /\ ink = SeqInk

\* C14: a finished cancel_order returned true if and only if it removed at
\* least one queued job with the given order_id from a queue it scanned.
C14_CancelTrueIffRemoved ==
    \A t \in Threads :
        th[t].outcome \in {"True", "False"} =>
            (th[t].outcome = "True" <=> th[t].removed > 0)

\* C15: on a printer from whose queue nothing was popped or cancelled, every
\* successful validate_and_consume is matched by a queued job or by a call
\* that is about to push it: no consumption is left without its job.
C15_ConsumedIsQueued ==
    \A p \in Printers :
        (popped = NoPop /\ returned[p] = << >>) =>
            CommitCount(p) =
                Len(queue[p])
                  + Cardinality({t \in Threads : th[t].pc = "push" /\ th[t].printer = p})

\* the printers whose supported list holds every print type of the sub-order
\* that call t is assigning
CapableOfCurrent(t) ==
    {p \in Printers : th[t].suborders[th[t].i] \subseteq supported[p]}

\* C16: with one caller, when every printer that can print the sub-order
\* being assigned has a full queue, the assignment ends the call with
\* QueueOverflowError and no step the call takes for that sub-order changes a
\* paper count, an ink level, a version or a queue.
C16_FullQueuesOverflow ==
    [][\A t \in Threads :
          ( /\ th[t].pc = "assign"
            /\ th'[t] # th[t]
            /\ CapableOfCurrent(t) # {}
            /\ \A p \in CapableOfCurrent(t) : Len(queue[p]) >= max_length[p] ) =>
              /\ \/ th'[t].pc = "assign"
                 \/ th'[t].pc = "idle" /\ th'[t].outcome = "QueueOverflowError"
              /\ UNCHANGED << paper_count, ink, versions, queue >>]_vars

\* a call ended with QueueOverflowError while every printer able to print its
\* sub-order had a full queue
C16_Witness ==
    \E t \in Threads :
        /\ th[t].outcome = "QueueOverflowError"
        /\ th[t].pushes = 0
        /\ \A p \in Printers :
               Range(th[t].order.keys) \subseteq supported[p] =>
                   Len(queue[p]) >= max_length[p]
        /\ \E p \in Printers : Range(th[t].order.keys) \subseteq supported[p]

\* both callers have made their one call and both calls have returned
BothReturned ==
    /\ budget = 0
    /\ \A t \in Threads : th[t].pc = "idle" /\ th[t].outcome # "none"

\* C17: two concurrent schedule_order calls for the same bw order with P1 the
\* only printer: each call returns a result or raises one of the scheduler's
\* errors, no two successful consumes happen at the same version, and when
\* both have returned P1's version is 2 if and only if both succeeded, in
\* which case A4 has decreased by 2 and P1's queue holds two jobs.
C17_BothSucceedIffTwoVersions ==
    /\ OneCommitPerVersion
    /\ BothReturned =>
         /\ \A t \in Threads :
                th[t].outcome \in {"ok", "ResourceConflictError", "QueueOverflowError",
                                   "InsufficientResourceError"}
         /\ versions["P1"] = 2 <=> Succeeded = Threads
         /\ Succeeded = Threads =>
                /\ paper_count["P1"]["A4"] = initial_paper["P1"]["A4"] - 2
                /\ Len(queue["P1"]) = 2

\* the positions of a schedule_order call inside its retry loop
InRetryLoop(t) ==
    th[t].pc \in {"plan", "assign", "snapshot", "consume", "subtract", "commit", "push",
                  "rebuild", "rebuild_add"}

\* C18: schedule_order runs the internal scheduling at most max_retries
\* times; a further attempt starts only from the retry branch, which is
\* entered only by a validate_and_consume whose version check failed;
\* ResourceConflictError reaches the caller only from the last attempt; a
\* call that ends with any other error ends in the attempt the error
\* occurred in, without entering the retry branch.
C18_RetryOnlyOnConflict ==
    /\ [](\A t \in Threads : InRetryLoop(t) => th[t].attempt < th[t].max_retries)
    /\ [][\A t \in Threads :
            /\ (InRetryLoop(t) /\ th'[t].attempt # th[t].attempt /\ th'[t].pc # "idle") =>
                   /\ th[t].pc \in {"rebuild", "rebuild_add"}
                   /\ th'[t].attempt = th[t].attempt + 1
            /\ (th'[t].pc = "rebuild" /\ th[t].pc # "rebuild") =>
                   /\ th[t].pc = "consume"
                   /\ th[t].snapshot_version # versions[th[t].printer]
            /\ (InRetryLoop(t) /\ th'[t].outcome = "ResourceConflictError") =>
                   /\ th[t].pc = "consume"
                   /\ th[t].snapshot_version # versions[th[t].printer]
                   /\ th[t].attempt = th[t].max_retries - 1
            /\ (InRetryLoop(t) /\ th'[t].pc = "idle"
                  /\ th'[t].outcome \in {"NoCapablePrinterError", "InsufficientResourceError",
                                         "QueueOverflowError"}) =>
                   th[t].pc \in {"plan", "assign", "consume", "push"}
            /\ (th[t].pc = "idle" /\ th'[t].outcome = "ValidationError") =>
                   th'[t].pc = "idle"]_vars

\* a call that conflicted on its first attempt is about to push the job it
\* consumed for on its second attempt
C18_Witness ==
    \E t \in Threads : th[t].pc = "push" /\ th[t].attempt = 1

\* call t took a turn of the loop of cancel_order in this step
CancelStep(t) ==
    /\ th'[t] # th[t]
    /\ \/ th'[t].pc = "cancel"
       \/ th'[t].pc = "idle" /\ th'[t].outcome \in {"True", "False"}

\* the printer whose queue that turn scanned
ScannedNow(t) ==
    IF th'[t].pc = "cancel" THEN th'[t].plist[th'[t].pos - 1]
    ELSE th'[t].plist[Len(th'[t].plist)]

\* C19: with one caller, the step in which a sub-order fails with
\* NoCapablePrinterError, InsufficientResourceError or QueueOverflowError
\* changes no paper count, ink level, version or queue, so what the earlier
\* sub-orders of the call consumed and queued stays; and a turn of
\* cancel_order leaves in the scanned queue exactly the jobs of other order
\* ids and changes nothing else of the printers.
C19_PartialWorkStays ==
    [][\A t \in Threads :
          /\ ( /\ InRetryLoop(t)
               /\ th'[t].pc = "idle"
               /\ th'[t].outcome \in {"NoCapablePrinterError",
                                      "InsufficientResourceError",
                                      "QueueOverflowError"} ) =>
                 /\ UNCHANGED << paper_count, ink, versions, queue >>
                 /\ th'[t].pushes = th[t].pushes
          /\ CancelStep(t) =>
                 LET p == ScannedNow(t)
                     kept == {job \in Range(queue[p]) : job.job_id # th'[t].order_id}
                 IN /\ Range(queue'[p]) = kept
                    /\ Len(queue'[p]) = Cardinality(kept)
                    /\ \A o \in Printers \ {p} : queue'[o] = queue[o]
                    /\ UNCHANGED << paper_count, ink, versions >>]_vars

\* a call failed at a later sub-order with a non-conflict error while the
\* job of an earlier sub-order of the same call is still queued
C19_Witness ==
    \E t \in Threads :
        /\ th[t].outcome \in {"NoCapablePrinterError", "InsufficientResourceError",
                              "QueueOverflowError"}
        /\ th[t].pushes >= 1
        /\ \E p \in Printers : \E n \in DOMAIN queue[p] :
               queue[p][n].job_id = th[t].order_id

\* call t is a schedule_order call in progress whose order has a print type
\* that no printer of the fleet supports
UnsupportedInCall(t) ==
    /\ th[t].pc = "cache_get" \/ InRetryLoop(t)
    /\ \E type \in Range(th[t].order.keys) : \A p \in Printers : type \notin supported[p]

\* C20: with one caller, a schedule_order call whose order has a print type
\* supported by no printer never gets past the planning of its sub-orders,
\* ends with NoCapablePrinterError, and changes no paper count, ink level,
\* version or queue, whatever other types the order has.
C20_UnsupportedTypeFails ==
    /\ [](\A t \in Threads : UnsupportedInCall(t) => th[t].pc \in {"cache_get", "plan"})
    /\ [][\A t \in Threads :
            (UnsupportedInCall(t) /\ th'[t] # th[t]) =>
                /\ \/ th'[t].pc = "plan"
                   \/ th'[t].pc = "idle" /\ th'[t].outcome = "NoCapablePrinterError"
                /\ UNCHANGED << paper_count, ink, versions, queue >>]_vars

\* a call for an order with a supported and an unsupported type has ended
\* with NoCapablePrinterError
C20_Witness ==
    \E t \in Threads :
        /\ th[t].pc = "idle"
        /\ th[t].outcome = "NoCapablePrinterError"
        /\ th[t].pushes = 0
        /\ \E type \in Range(th[t].order.keys) : \A p \in Printers : type \notin supported[p]
        /\ \E type \in Range(th[t].order.keys) : \E p \in Printers : type \in supported[p]

\* printer p holds the paper of every kind and the ink of every channel that
\* validate_and_consume computes as needed for the sub-order
HasEnough(p, suborder_req) ==
    /\ \A ptype \in DOMAIN PaperNeeded(suborder_req) :
           Get(paper_count[p], ptype, 0) >= PaperNeeded(suborder_req)[ptype]
    /\ \A channel \in DOMAIN InkNeeded(suborder_req) :
           Get(ink[p], channel, 0) >= InkNeeded(suborder_req)[channel]

\* C21: a sub-order fails with InsufficientResourceError only when no printer
\* that supports it and whose queue is not full holds the paper and ink the
\* sub-order needs in total.
C21_InsufficientOnlyIfAllLack ==
    [][\A t \in Threads :
          ( /\ InRetryLoop(t)
            /\ th'[t].pc = "idle"
            /\ th'[t].outcome = "InsufficientResourceError" ) =>
              \A p \in CapableOfCurrent(t) :
                  \/ Len(queue[p]) >= max_length[p]
                  \/ ~HasEnough(p, CurrentReq(t))]_vars

\* the order is empty, has more than 10 keys, has a key that is not
\* alphanumeric, lacks a paper_count or has a count outside 1..10000
Malformed(order) ==
    \/ Len(order.keys) = 0
    \/ Len(order.keys) > 10
    \/ \E t \in Range(order.keys) :
           \/ ~isalnum(t)
           \/ "paper_count" \notin DOMAIN order.req[t]
           \/ /\ "paper_count" \in DOMAIN order.req[t]
              /\ \E ptype \in DOMAIN order.req[t].paper_count :
                     \/ order.req[t].paper_count[ptype] < 1
                     \/ order.req[t].paper_count[ptype] > 10000

\* C22: a schedule_order call for a malformed order ends in the step that
\* starts it, with ValidationError, and that step changes no paper count, ink
\* level, version, queue or cache entry; no call for a malformed order is ever
\* at the cache lookup or inside the retry loop.
C22_MalformedRejected ==
    /\ [](\A t \in Threads :
              (th[t].pc = "cache_get" \/ InRetryLoop(t)) => ~Malformed(th[t].order))
    /\ [][\A t \in Threads :
            (th[t].pc = "idle" /\ th'[t] # th[t] /\ Malformed(th'[t].order)) =>
                /\ th'[t].pc = "idle"
                /\ th'[t].outcome = "ValidationError"
                /\ th'[t].pushes = 0
                /\ UNCHANGED << paper_count, ink, versions, queue, cache >>]_vars

\* a malformed order was rejected while the cache held an entry and a queue
\* held a job
C22_Witness ==
    \E t \in Threads :
        /\ th[t].outcome = "ValidationError"
        /\ Malformed(th[t].order)
        /\ Len(th[t].order.keys) > 10
        /\ cache # << >>
        /\ \E p \in Printers : queue[p] # << >>

\* the size of a smallest family of printer-supported subsets of the types T
\* whose union is T: the least number of printers whose supported lists
\* together hold every type of T
MinCover(fleet_supported, T) ==
    SetMin({Cardinality(Q) : Q \in {X \in SUBSET DOMAIN fleet_supported :
                                       T \subseteq UNION {fleet_supported[p] : p \in X}}})

\* C23: whenever generate_suborders_from_order returns, the number of
\* sub-orders it returns is the size of a smallest family of printer-supported
\* subsets of the order's types whose union is the order's types.
C23_MinimumSuborders ==
    planned.outcome = "ok" =>
        Len(planned.suborders) = MinCover(planned.supported, Range(planned.order_types))

\* a step of the call thread t is in, for the positions of a call that touch
\* a lock or shared state other than the capability index
CallStep(t) ==
    \/ CacheGet(t) \/ GetSnapshot(t) \/ ValidateAndConsume(t) \/ ConsumeResources(t)
    \/ CommitVersion(t) \/ QueuePush(t) \/ CacheSet(t) \/ RebuildClear(t)
    \/ RebuildAdd(t) \/ CancelNext(t) \/ UpdateCommit(t)

\* C24: every thread inside a call (past the planning and assignment
\* positions, which only read the index and the printers and take no printer
\* lock) can take a step, or waits for a printer lock whose holder is another
\* thread inside a call that can take a step; a lock is only ever held by a
\* thread inside a call.
C24_NoDeadlock ==
    /\ \A p \in Printers : locks[p] # NoOne => th[locks[p]].pc # "idle"
    /\ \A t \in Threads :
           th[t].pc \notin {"idle", "plan", "assign"} =>
               \/ ENABLED CallStep(t)
               \/ /\ th[t].pc = "consume"
                  /\ locks[th[t].printer] \in Threads \ {t}
                  /\ ENABLED CallStep(locks[th[t].printer])

\* a call waits for a printer lock that another call holds
C24_Witness ==
    \E t \in Threads :
        /\ th[t].pc = "consume"
        /\ locks[th[t].printer] \in Threads \ {t}
        /\ ~ENABLED CallStep(t)

\* the values of one argument dict are in the printer's dict afterwards and the
\* other keys keep their values
Applied(before, after, given) ==
    /\ DOMAIN after = DOMAIN before \cup DOMAIN given
    /\ \A k \in DOMAIN given : after[k] = given[k]
    /\ \A k \in DOMAIN before \ DOMAIN given : after[k] = before[k]

\* paper, ink and version of every printer but p stay as they are
OthersUnchanged(p) ==
    \A q \in Printers \ {p} :
        /\ paper_count'[q] = paper_count[q]
        /\ ink'[q] = ink[q]
        /\ versions'[q] = versions[q]

\* C25: update_printer_resources on a known printer takes the printer's lock,
\* writes the given paper and ink values under it, adds exactly 1 to that
\* printer's version, leaves the other printers' paper, ink and version alone
\* and returns with the cache empty; on an unknown printer id it raises
\* ValidationError and changes no resource, version, lock, queue or cache.
C25_UpdateFrame ==
    [][\A t \in Threads :
          /\ (th[t].pc = "idle" /\ th'[t].pc = "update_commit") =>
                LET p == th'[t].printer
                IN /\ locks'[p] = t
                   /\ \E u \in SeqUpdateMenu :
                          /\ Applied(paper_count[p], paper_count'[p], u.paper_count)
                          /\ Applied(ink[p], ink'[p], u.ink)
                   /\ versions'[p] = versions[p]
                   /\ OthersUnchanged(p)
          /\ (th[t].pc = "update_commit" /\ th'[t] # th[t]) =>
                LET p == th[t].printer
                IN /\ locks[p] = t
                   /\ paper_count' = paper_count
                   /\ ink' = ink
                   /\ versions'[p] = versions[p] + 1
                   /\ OthersUnchanged(p)
                   /\ th'[t].pc = "idle"
                   /\ th'[t].outcome = "ok"
                   /\ cache' = << >>
          /\ (th[t].pc = "idle" /\ th'[t] # th[t] /\ th'[t].printer \notin Printers \cup {None}) =>
                /\ th'[t].pc = "idle"
                /\ th'[t].outcome = "ValidationError"
                /\ UNCHANGED << paper_count, ink, versions, locks, queue, cache >>
      ]_vars

\* an update has returned on a printer whose resources an order had consumed,
\* and an update with an unknown printer id has been refused
C25_Witness ==
    /\ th["t1"].pc = "idle"
    /\ th["t1"].printer \notin Printers \cup {None}
    /\ \E p \in manual : versions[p] >= 2 /\ consumed[p] # << >>

-----------------------------------------------------------------------------
(* Two callers that schedule the one-sheet bw order without an order id on a  *)
(* fleet whose only printing printer is P1, with room for two jobs, and that  *)
(* cancel a generated id.  Each order has one sub-order, hence one job.       *)

GeneratedIds == {GeneratedId(ms) : ms \in MsReadings}

InitId == InitWith(PairSupported, FleetPaper, FleetInk, FleetSpeed, MaxQueue + 1,
                   MaxCalls + 1)

NextId ==
    \E t \in Threads :
        \/ ScheduleOrder(t, {OrderBw}, {None})
        \/ CacheGet(t)
        \/ PlanLookup(t)
        \/ AssignPrinter(t)
        \/ GetSnapshot(t)
        \/ ValidateAndConsume(t)
        \/ ConsumeResources(t)
        \/ CommitVersion(t)
        \/ QueuePush(t)
        \/ CacheSet(t)
        \/ RebuildClear(t)
        \/ RebuildAdd(t)
        \/ CancelOrder(t, GeneratedIds, {None})
        \/ CancelNext(t)

SpecId == InitId /\ [][NextId]_vars

\* thread t is in, or has left, a schedule_order call that generated its id
GeneratedFor(t) == th[t].order_id \in GeneratedIds /\ th[t].plist = << >>

\* C26: two schedule_order calls made without an order_id, overlapping in time
\* or not, hold different generated ids, and a cancel_order call for a generated
\* id removes no more than the one job of one order.
C26_GeneratedIdsDistinct ==
    /\ \A t, u \in Threads :
           (t # u /\ GeneratedFor(t) /\ GeneratedFor(u)) =>
               th[t].order_id # th[u].order_id
    /\ \A c \in Threads : th[c].plist # << >> => th[c].removed <= 1

\* the second part of C26 on its own: no cancel_order call removes two jobs
C26_CancelRemovesBoth == \A c \in Threads : th[c].plist # << >> => th[c].removed <= 1

-----------------------------------------------------------------------------
(* get_printer_status on fleets whose paper kinds and ink channels lie just   *)
(* below and at the threshold of 10 (10 sheets; 10 percent, which is 200 in   *)
(* units of 0.05 percent), with queues that a backend fills.                  *)

\* PrinterScheduler._determine_printer_status(info), with Config.MAX_QUEUE_LENGTH
\* given as queue_limit
determine_printer_status(paper, levels, queue_size, queue_limit) ==
    IF \A kind \in DOMAIN paper : paper[kind] < 10 THEN "low_paper"
    ELSE IF \E channel \in DOMAIN levels : levels[channel] < 200 THEN "low_ink"
    ELSE IF queue_size >= queue_limit THEN "queue_full"
    ELSE "ready"

StatusLabels == {"low_paper", "low_ink", "queue_full", "ready"}

\* get_printer_status(printer_id), called by thread t
GetPrinterStatus(t, targets) ==
    /\ th[t].pc = "idle"
    /\ budget > 0
    /\ budget' = budget - 1
    /\ \E printer_id \in targets :
         th' = [th EXCEPT ![t] =
                  [Idle(IF printer_id \notin Printers THEN "ValidationError"
                        ELSE determine_printer_status(paper_count[printer_id],
                                 ink[printer_id], Len(queue[printer_id]),
                                 max_length[printer_id]),
                        NoResult) EXCEPT !.printer = printer_id]]
    /\ UNCHANGED << fleet, paper_count, ink, queue, versions, locks, capability_index,
                    cache, clock, consumed, returned, manual, published, commits,
                    popped >>

StatusPaperMenu == [{"A4", "A3"} -> {9, 10}]
StatusInkMenu == [{"black", "C"} -> {199, 200}]

InitStatus ==
    \E fleet_paper \in [Printers -> StatusPaperMenu],
       fleet_ink \in [Printers -> StatusInkMenu] :
        InitWith(FleetSupported, fleet_paper, fleet_ink, FleetSpeed, MaxQueue, MaxCalls)

NextStatus ==
    \/ GetPrinterStatus("t1", SeqUpdateTargets)
    \/ \E p \in Printers : DirectPush(p)

SpecStatus == InitStatus /\ [][NextStatus]_vars

\* C27: the label get_printer_status reports for a printer is low_paper when
\* some paper kind of the printer is below 10 sheets, low_ink when no paper
\* kind is below 10 and some ink channel is below 10 percent, and neither of
\* the two when every paper kind and every ink channel is at least 10.
C27_LowLabels ==
    LET p == th["t1"].printer
        label == th["t1"].outcome
        paper_low == \E kind \in DOMAIN paper_count[p] : paper_count[p][kind] < 10
        ink_low == \E channel \in DOMAIN ink[p] : ink[p][channel] < 200
    IN (p \in Printers /\ label \in StatusLabels) =>
           /\ paper_low => label = "low_paper"
           /\ (~paper_low /\ ink_low) => label = "low_ink"
           /\ (~paper_low /\ ~ink_low) => label \notin {"low_paper", "low_ink"}

-----------------------------------------------------------------------------
(* PrinterScheduler(printers_data) on fleets of one or two printers whose     *)
(* entries lack a field, hold an ink level out of range or a negative speed.  *)
(* Every entry is a dict whose supported is a list and whose paper_count and  *)
(* ink are dicts.                                                             *)

RequiredFields == {"supported", "paper_count", "ink", "speed"}

\* Validator.validate_printers_data: TRUE where the source returns True, FALSE
\* where it raises ValidationError
validate_printers_data(printers_data) ==
    /\ DOMAIN printers_data # {}
    /\ \A printer_id \in DOMAIN printers_data :
           LET info == printers_data[printer_id]
           IN /\ \A field \in RequiredFields : field \in DOMAIN info
              /\ \A channel \in DOMAIN info.ink :
                     0 <= info.ink[channel] /\ info.ink[channel] <= 2000

ValidInfo == [supported |-> {"bw"}, paper_count |-> [A4 |-> MaxPaper],
              ink |-> [black |-> 1400], speed |-> 10]

\* ValidInfo without one field
Without(field) == [f \in DOMAIN ValidInfo \ {field} |-> ValidInfo[f]]

InfoMenu ==
    {ValidInfo} \cup {Without(field) : field \in RequiredFields}
    \cup {[ValidInfo EXCEPT !.ink = [black |-> level]] : level \in {-1, 0, 2000, 2001}}
    \cup {[ValidInfo EXCEPT !.speed = s] : s \in {-5, 0}}

InitFleet ==
    /\ InitScheduler(FleetSupported, FleetPaper, FleetInk, FleetSpeed, MaxQueue, MaxCalls)
    /\ planned \in [printers_data : UNION {[D -> InfoMenu] : D \in SUBSET Printers \ {{}}},
                    outcome : {"none"}]

\* PrinterScheduler.__init__ up to the validation of printers_data
Construct ==
    /\ planned.outcome = "none"
    /\ planned' = [planned EXCEPT
                      !.outcome = IF validate_printers_data(planned.printers_data)
                                  THEN "accepted" ELSE "ValidationError"]
    /\ UNCHANGED << supported, speed, paper_count, ink, queue, max_length, versions,
                    locks, capability_index, cache, th, budget, clock, initial_paper,
                    consumed, returned, manual, published, commits, popped >>

NextFleet == Construct

SpecFleet == InitFleet /\ [][NextFleet]_vars

\* C28: the constructor raises ValidationError for a fleet in which some
\* printer lacks supported, paper_count, ink or speed, has an ink level
\* outside 0..100 percent or has a negative speed, and accepts every other
\* fleet.
C28_FleetValidation ==
    LET pd == planned.printers_data
        bad(info) ==
            \/ \E field \in RequiredFields : field \notin DOMAIN info
            \/ \E channel \in DOMAIN info.ink :
                   info.ink[channel] < 0 \/ info.ink[channel] > 2000
            \/ info.speed < 0
    IN planned.outcome \in {"accepted", "ValidationError"} =>
           (planned.outcome = "ValidationError" <=> \E p \in DOMAIN pd : bad(pd[p]))

-----------------------------------------------------------------------------
(* One caller on a fleet in which P1 alone prints, bw and color, with two     *)
(* paper kinds and little black ink (1.25 percent); the orders ask for one    *)
(* type on one paper kind, for one type on two paper kinds, and for two types *)
(* of which one is on two paper kinds.                                        *)

TwoKinds == [paper_count |-> [A4 |-> 1, A3 |-> 1]]
OrderBwTwoKinds == Order(<< "bw" >>, [bw |-> TwoKinds])
OrderTwoTypes == Order(<< "bw", "color" >>, [bw |-> TwoKinds, color |-> OneSheet])
ConsumeOrderMenu == {OrderBw, OrderBwTwoKinds, OrderTwoTypes}

ConsumeSupported == [p \in Printers |-> IF p = "P1" THEN {"bw", "color"} ELSE {}]
ConsumePaperStock == [p \in Printers |-> [A4 |-> MaxPaper, A3 |-> 1]]
ConsumeInkStock == [p \in Printers |-> [black |-> 25, C |-> 2000, M |-> 2000, Y |-> 2000]]

InitConsume == InitWith(ConsumeSupported, ConsumePaperStock, ConsumeInkStock, FleetSpeed,
                        MaxQueue + 1, MaxSeqCalls)

NextConsume ==
    \/ ScheduleOrder("t1", ConsumeOrderMenu, OrderIds)
    \/ CacheGet("t1")
    \/ PlanLookup("t1")
    \/ AssignPrinter("t1")
    \/ GetSnapshot("t1")
    \/ ValidateAndConsume("t1")
    \/ ConsumeResources("t1")
    \/ CommitVersion("t1")
    \/ QueuePush("t1")
    \/ CacheSet("t1")
    \/ \E p \in Printers : QueuePop(p)

SpecConsume == InitConsume /\ [][NextConsume]_vars

\* the sheets of one paper kind a sub-order asks for, over all its types
RequestedSheets(suborder_req, kind) ==
    SumOver([t \in DOMAIN suborder_req |->
                IF kind \in DOMAIN suborder_req[t].paper_count
                THEN suborder_req[t].paper_count[kind] ELSE 0],
            DOMAIN suborder_req)

\* the ink of one channel a sub-order asks for: per type, the pages of the type
\* (its counts over all paper kinds) times the type's rate for the channel
RequestedInk(suborder_req, channel) ==
    SumOver([t \in DOMAIN suborder_req |->
                SumOver(suborder_req[t].paper_count, DOMAIN suborder_req[t].paper_count)
                * (IF channel \in DOMAIN INK_CONSUMPTION(t)
                   THEN INK_CONSUMPTION(t)[channel] ELSE 0)],
            DOMAIN suborder_req)

\* everything of the fleet but paper, ink and version of printer p stays as it is
\* in a step of validate_and_consume on p
RestUnchanged(p) ==
    /\ OthersUnchanged(p)
    /\ UNCHANGED << supported, speed, max_length, queue, capability_index, cache >>

\* C29: a validate_and_consume that passed its checks subtracts from every
\* paper kind of the printer the sheets the sub-order asks for over all its
\* types, and from every ink channel the sum over the types of pages times
\* rate; it then adds 1 to the printer's version, and changes nothing else.
C29_ExactConsumption ==
    [][\A t \in Threads :
          LET r == th[t]
              p == r.printer
          IN /\ (r.pc = "subtract" /\ th'[t] # r) =>
                    LET suborder_req == SuborderReq(r.order, r.suborders[r.i])
                    IN /\ DOMAIN paper_count'[p] = DOMAIN paper_count[p]
                       /\ \A kind \in DOMAIN paper_count[p] :
                              paper_count'[p][kind] =
                                  paper_count[p][kind] - RequestedSheets(suborder_req, kind)
                       /\ DOMAIN ink'[p] = DOMAIN ink[p]
                       /\ \A channel \in DOMAIN ink[p] :
                              ink'[p][channel] =
                                  ink[p][channel] - RequestedInk(suborder_req, channel)
                       /\ versions'[p] = versions[p]
                       /\ RestUnchanged(p)
                       /\ th'[t].pc = "commit"
             /\ (r.pc = "commit" /\ th'[t] # r) =>
                    /\ paper_count' = paper_count
                    /\ ink' = ink
                    /\ versions'[p] = versions[p] + 1
                    /\ RestUnchanged(p)
      ]_vars

\* the sub-order of two types, one of them on two paper kinds, has been
\* consumed on P1: two sheets of A4, one of A3 and the ink of three pages
C29_Witness ==
    /\ th["t1"].pc = "push"
    /\ th["t1"].order = OrderTwoTypes
    /\ versions["P1"] = 1
    /\ paper_count["P1"] = [A4 |-> MaxPaper - 2, A3 |-> 0]
    /\ ink["P1"] = [black |-> 3, C |-> 1994, M |-> 1994, Y |-> 1994]

\* the sub-order needs more of some paper kind or ink channel than printer p has
Lacking(p, suborder_req) ==
    \/ \E kind \in UNION {DOMAIN suborder_req[t].paper_count : t \in DOMAIN suborder_req} :
           Get(paper_count[p], kind, 0) < RequestedSheets(suborder_req, kind)
    \/ \E channel \in UNION {DOMAIN INK_CONSUMPTION(t) : t \in DOMAIN suborder_req} :
           Get(ink[p], channel, 0) < RequestedInk(suborder_req, channel)

\* C30: a validate_and_consume that finds, at the snapshot's version, less of
\* some paper kind or ink channel than the sub-order needs raises
\* InsufficientResourceError and leaves paper, ink and version of every printer
\* as they were; a subtraction only ever runs on a printer that holds all the
\* sub-order needs.
C30_FailureChangesNothing ==
    [][\A t \in Threads :
          LET r == th[t]
              p == r.printer
              suborder_req == SuborderReq(r.order, r.suborders[r.i])
          IN /\ (r.pc = "consume" /\ th'[t] # r /\ versions[p] = r.snapshot_version
                   /\ Lacking(p, suborder_req)) =>
                    /\ th'[t].pc = "idle"
                    /\ th'[t].outcome = "InsufficientResourceError"
                    /\ UNCHANGED << paper_count, ink, versions, locks >>
             /\ (r.pc = "consume" /\ th'[t].pc = "idle"
                   /\ th'[t].outcome = "InsufficientResourceError") =>
                    UNCHANGED << paper_count, ink, versions, locks >>
             /\ (r.pc = "subtract") => ~Lacking(p, suborder_req)
      ]_vars

\* a call for one type on two paper kinds has ended with
\* InsufficientResourceError on a printer that holds the paper but not the
\* black ink of two pages
C30_Witness ==
    /\ th["t1"].pc = "idle"
    /\ th["t1"].outcome = "InsufficientResourceError"
    /\ th["t1"].order = OrderBwTwoKinds
    /\ paper_count["P1"].A4 >= 1
    /\ paper_count["P1"].A3 >= 1
    /\ ink["P1"].black < 20

\* the printers of the fleet that support every type of the sub-order
CapableOf(suborder_types) == {p \in Printers : suborder_types \subseteq supported[p]}

\* C31: when assign_printer_for_suborder fails for a sub-order that has
\* capable printers, the error is QueueOverflowError if some capable printer's
\* queue is full, otherwise InsufficientResourceError if some capable printer
\* hard-failed on paper or ink, otherwise NoCapablePrinterError.
C31_FailureKind ==
    [][\A t \in Threads :
          LET r == th[t]
              suborder_types == r.suborders[r.i]
              suborder_req == SuborderReq(r.order, suborder_types)
              capable == CapableOf(suborder_types)
              full == {p \in capable : Len(queue[p]) >= max_length[p]}
              failed == {p \in capable :
                            PaperHardFail(p, suborder_req) \/ InkHardFail(p, suborder_req)}
          IN (r.pc = "assign" /\ th'[t].pc = "idle" /\ capable # {}) =>
                 th'[t].outcome = IF full # {} THEN "QueueOverflowError"
                                  ELSE IF failed # {} THEN "InsufficientResourceError"
                                  ELSE "NoCapablePrinterError"
      ]_vars

-----------------------------------------------------------------------------
(* assign_printer_for_suborder called for the sub-order {bw} of the one-sheet *)
(* bw order, with a priority list, on fleets whose printers differ in what    *)
(* they support, in paper and in speed, and whose queues a backend fills.     *)

AssignSupportedMenu == {{"bw"}, {"bw", "color"}, {"color"}}
AssignPaperMenu == {[A4 |-> n] : n \in {0, MaxPaper}}
AssignSpeedMenu == {20, 35}
\* default_priorities: none, and lists that name one printer or both
AssignPriorityMenu == {<< >>, << "P2" >>, << "P2", "P1" >>}

InitAssign ==
    \E fleet_supported \in [Printers -> AssignSupportedMenu],
       fleet_paper \in [Printers -> AssignPaperMenu],
       fleet_speed \in [Printers -> AssignSpeedMenu] :
        /\ InitScheduler(fleet_supported, fleet_paper,
                         [p \in Printers |-> [black |-> 1400, C |-> 900, M |-> 900, Y |-> 900]],
                         fleet_speed, MaxQueue, MaxCalls)
        /\ planned \in [default_priorities : AssignPriorityMenu, printer : {None},
                        score : {0}, outcome : {"none"}]

\* one call of assign_printer_for_suborder
Assign ==
    LET caps == << "bw" >>
        a == assign_printer_for_suborder({"bw"}, OrderBw, planned.default_priorities,
                                         FindReads(caps, 1, {}, Len(caps)).acc)
    IN /\ planned.outcome = "none"
       /\ planned' = [planned EXCEPT !.printer = a.printer, !.score = a.score,
                                     !.outcome = IF a.error = "none" THEN "ok" ELSE a.error]
       /\ UNCHANGED << supported, speed, paper_count, ink, queue, max_length, versions,
                       locks, capability_index, cache, th, budget, clock, initial_paper,
                       consumed, returned, manual, published, commits, popped >>

NextAssign ==
    \/ Assign
    \/ \E p \in Printers : planned.outcome = "none" /\ DirectPush(p)

SpecAssign == InitAssign /\ [][NextAssign]_vars

\* the capable printers with room in their queue and a positive score for the
\* one-sheet bw sub-order
Eligible ==
    {p \in CapableOf({"bw"}) :
        /\ Len(queue[p]) < max_length[p]
        /\ score_printer_for_suborder(p, [bw |-> OneSheet]) > 0}

\* C32: the printer assign_printer_for_suborder returns is an eligible
\* candidate (capable, queue not full, score positive) that comes before every
\* other eligible candidate in the order score descending, then index in the
\* priority list ascending with unlisted printers last, then printer id
\* ascending; the score returned is that printer's score.
C32_BestCandidate ==
    planned.outcome = "ok" =>
        LET best == planned.printer
            s(p) == score_printer_for_suborder(p, [bw |-> OneSheet])
            ix(p) == PriorityIndex(planned.default_priorities, p)
        IN /\ best \in Eligible
           /\ planned.score = s(best)
           /\ \A o \in Eligible \ {best} :
                  \/ s(best) > s(o)
                  \/ s(best) = s(o) /\ ix(best) < ix(o)
                  \/ s(best) = s(o) /\ ix(best) = ix(o) /\ IdRank(best) < IdRank(o)

\* two eligible printers with equal scores, and the priority list decided for P2
C32_Witness ==
    /\ planned.outcome = "ok"
    /\ planned.printer = "P2"
    /\ Eligible = {"P1", "P2"}
    /\ score_printer_for_suborder("P1", [bw |-> OneSheet])
           = score_printer_for_suborder("P2", [bw |-> OneSheet])

\* the type tags in the order of Python's string comparison
AlphaOrder == << "bw", "color", "glossy", "holographic", "postersize", "thick" >>
AlphaRank(t) == CHOOSE n \in 1..Len(AlphaOrder) : AlphaOrder[n] = t

\* tuple(sorted(A)) < tuple(sorted(B)) for two different sets of one size: the
\* smallest tag that is in one of them only is in A
SortedTagsBefore(A, B) ==
    /\ A # B
    /\ \E a \in A \ B : \A b \in B \ A : AlphaRank(a) < AlphaRank(b)

\* C33: every sub-order the planner returns is, among the subsets of the
\* order's types that some printer supports, one with the largest intersection
\* with the types not covered before it; among those it has the most types, and
\* among those its sorted tag tuple is the smallest, whatever the key order of
\* the order.
C33_GreedyTieBreak ==
    planned.outcome = "ok" =>
        LET types == Range(planned.order_types)
            cands == {S \in SUBSET types \ {{}} :
                         \E p \in DOMAIN planned.supported : S \subseteq planned.supported[p]}
        IN \A i \in 1..Len(planned.suborders) :
               LET remaining == types \ UNION {planned.suborders[j] : j \in 1..(i - 1)}
                   best == planned.suborders[i]
                   ov(S) == Cardinality(S \cap remaining)
               IN /\ best \in cands
                  /\ \A S \in cands \ {best} :
                         \/ ov(best) > ov(S)
                         \/ ov(best) = ov(S) /\ Cardinality(best) > Cardinality(S)
                         \/ /\ ov(best) = ov(S)
                            /\ Cardinality(best) = Cardinality(S)
                            /\ SortedTagsBefore(best, S)

-----------------------------------------------------------------------------
(* The while loop of generate_suborders_from_order, one iteration a step, on  *)
(* the fleets and key orders of SpecPlan.                                     *)

InitLoop ==
    /\ InitScheduler(FleetSupported, FleetPaper, FleetInk, FleetSpeed, MaxQueue, MaxCalls)
    /\ \E fleet_supported \in [PlanPrinters -> PlanSupportedMenu],
          order_types \in PlanOrderTypes :
           planned = [supported |-> fleet_supported, order_types |-> order_types,
                      remaining |-> Range(order_types), suborders |-> << >>,
                      outcome |-> "none"]

\* one test of "while remaining" and, when it holds, one run of the loop body
PlanIteration ==
    LET supported_combos ==
            Unique(PlanValidCombos(planned.supported, planned.order_types), {})
        remaining == planned.remaining
    IN /\ planned.outcome = "none"
       /\ planned' =
            IF remaining = {} THEN [planned EXCEPT !.outcome = "ok"]
            ELSE IF \A n \in DOMAIN supported_combos : supported_combos[n] \cap remaining = {}
            THEN [planned EXCEPT !.outcome = "NoCapablePrinterError"]
            ELSE LET best == supported_combos[BestCombo(supported_combos, remaining)]
                 IN [planned EXCEPT !.suborders = Append(@, best),
                                    !.remaining = remaining \ best]
       /\ UNCHANGED << supported, speed, paper_count, ink, queue, max_length, versions,
                       locks, capability_index, cache, th, budget, clock, initial_paper,
                       consumed, returned, manual, published, commits, popped >>

NextLoop == PlanIteration

SpecLoop == InitLoop /\ [][NextLoop]_vars

\* C34: every iteration of the planner's loop takes at least one type out of
\* the uncovered set and adds one sub-order, or raises NoCapablePrinterError,
\* or finds the set empty and returns; the sub-orders emitted and the types
\* still uncovered never number more than the order's types together, so the
\* loop runs at most once per type and returns at most that many sub-orders.
C34_PlannerTerminates ==
    [][planned.outcome = "none" =>
          /\ \/ planned'.outcome = "NoCapablePrinterError" /\ planned.remaining # {}
             \/ planned'.outcome = "ok" /\ planned.remaining = {}
             \/ /\ planned'.outcome = "none"
                /\ planned'.remaining \subseteq planned.remaining
                /\ planned'.remaining # planned.remaining
                /\ Len(planned'.suborders) = Len(planned.suborders) + 1
          /\ Len(planned'.suborders) + Cardinality(planned'.remaining)
                 <= Len(planned.order_types)
      ]_vars

\* the planner returned as many sub-orders as the order has types
C34_Witness ==
    /\ planned.outcome = "ok"
    /\ "remaining" \in DOMAIN planned
    /\ Len(planned.suborders) = Len(planned.order_types)

\* C35: no schedule_order call ends with NoCapablePrinterError for an order
\* whose every type is supported by some printer of the fleet, and no lookup
\* of a call reads the index while it is cleared or partly rebuilt.
C35_LookupSeesFullIndex ==
    \A t \in Threads :
        /\ ~th[t].stale_index
        /\ (th[t].outcome = "NoCapablePrinterError" =>
               \E otype \in Range(th[t].order.keys) : CapableOf({otype}) = {})

-----------------------------------------------------------------------------
(* Two callers on the fleet of Spec with room for three jobs in each queue:   *)
(* one order has a bw and a color sub-order, the other is color only, so a    *)
(* call can meet a conflict on its second sub-order after its first one was   *)
(* consumed and queued.                                                       *)

OrderColor == Order(<< "color" >>, [color |-> OneSheet])

InitRetry == InitWith(FleetSupported, FleetPaper, FleetInk, FleetSpeed, MaxQueue + 2,
                      MaxCalls)

NextRetry ==
    \E t \in Threads :
        \/ ScheduleOrder(t, {OrderBwColor, OrderColor}, {OwnOrderId(t)})
        \/ CacheGet(t)
        \/ PlanLookup(t)
        \/ AssignPrinter(t)
        \/ GetSnapshot(t)
        \/ ValidateAndConsume(t)
        \/ ConsumeResources(t)
        \/ CommitVersion(t)
        \/ QueuePush(t)
        \/ CacheSet(t)
        \/ RebuildClear(t)
        \/ RebuildAdd(t)

SpecRetry == InitRetry /\ [][NextRetry]_vars

\* C36: a schedule_order call that ran the scheduling itself and returned a
\* result has consumed and queued each sub-order of the result once: the jobs
\* it pushed (each push follows a consumption, and no job leaves a queue in
\* SpecRetry) are as many as the sub-orders, also when an attempt of the call
\* ended in a conflict.
C36_OncePerSuborder ==
    \A t \in Succeeded :
        th[t].pushes > 0 => th[t].pushes = Len(th[t].result.suborders)

\* ---------------------------------------------------------------------------
\* cancel_order: what a turn of its loop leaves in the queues

\* the jobs of a queue in the order in which successive pop() calls return them
RECURSIVE PopOrder(_)
PopOrder(heap) ==
    IF heap = << >> THEN << >>
    ELSE << HeapPop(heap).item >> \o PopOrder(HeapPop(heap).heap)

\* C37: a turn of cancel_order's loop removes from the scanned queue all and
\* only the jobs whose job_id is the cancelled order id; the other jobs stay
\* with their priority and are served (popped) in the same relative order as
\* before the cancel; the queues of the other printers are unchanged; and a
\* job pushed by another caller while a cancel is between two turns is in
\* the queue after the push.
C37_CancelFrame ==
    [][\A t \in Threads :
          /\ CancelStep(t) =>
                 LET p == ScannedNow(t)
                     other(job) == job.job_id # th'[t].order_id
                 IN p \in Printers =>
                      /\ Range(queue'[p]) = {job \in Range(queue[p]) : other(job)}
                      /\ \A o \in Printers \ {p} : queue'[o] = queue[o]
                      /\ PopOrder(queue'[p]) = SelectSeq(PopOrder(queue[p]), other)
          /\ ( th[t].pc = "cancel" /\ th'[t] = th[t] ) =>
                 \A p \in Printers :
                     Len(queue'[p]) > Len(queue[p]) =>
                         Range(queue[p]) \subseteq Range(queue'[p])
      ]_vars

\* ---------------------------------------------------------------------------
\* The order id of a returned result

\* C38: the result a schedule_order call returns carries the order id of that
\* call (the id the caller passed, or the one generated for the call), never
\* the id of an earlier call.
C38_ResultCarriesOwnId ==
    \A t \in Succeeded : th[t].result.order_id = th[t].order_id

----------------------------------------------------------------------------
(* Two callers whose schedule_order calls are made with any max_retries,     *)
(* zero included: "for attempt in range(max_retries)" then has no turn.      *)

AnyRetries == {0, 1, 2}

InitAny == InitWith(FleetSupported, FleetPaper, FleetInk, FleetSpeed, MaxQueue, MaxCalls)

NextAny ==
    \E t \in Threads :
        \/ ScheduleWith(t, OrderMenu, {OwnOrderId(t)}, AnyRetries)
        \/ CacheGet(t)
        \/ PlanLookup(t)
        \/ AssignPrinter(t)
        \/ GetSnapshot(t)
        \/ ValidateAndConsume(t)
        \/ ConsumeResources(t)
        \/ CommitVersion(t)
        \/ QueuePush(t)
        \/ CacheSet(t)
        \/ RebuildClear(t)
        \/ RebuildAdd(t)

SpecAny == InitAny /\ [][NextAny]_vars

\* the exceptions schedule_order raises
SchedulerErrors ==
    {"ValidationError", "NoCapablePrinterError", "InsufficientResourceError",
     "QueueOverflowError", "ResourceConflictError"}

\* C39: a schedule_order call that has finished, whatever its max_retries,
\* either returned a result with at least one assignment or raised one of
\* the scheduler errors; it never returned without a result and without an
\* error.
C39_ResultOrError ==
    \A t \in Threads :
        ( th[t].pc = "idle" /\ th[t].outcome # "none" ) =>
            \/ th[t].outcome = "ok" /\ th[t].result.assignments # << >>
            \/ th[t].outcome \in SchedulerErrors
====
